---- MODULE Spec2Model ----
(***************************************************************************)
(* A model of the LSM-tree of this repository: the write path of           *)
(* src/src/tree.rs (insert, remove, compare_and_swap, fetch_update,        *)
(* update_fetch, Batch::commit), the layered read path                     *)
(* (get_internal_entry), and the recovery of a journal shard               *)
(* (src/fjall/src/journal/shard.rs).                                       *)
(***************************************************************************)
EXTENDS Integers, Sequences, FiniteSets, TLC

(* ------------------------------ bounds ------------------------------ *)

\* the seqno counter is capped: no write starts once lsn = MaxSeqno
MaxSeqno == 3
\* sealed memtables that may wait for their flush (permits of the flush semaphore)
MaxImmutable == 1
\* segments that may exist before a compaction must run
MaxSegments == 2
\* snapshots open at the same time
MaxSnapshots == 1
\* items of one write batch
MaxBatchItems == 2
\* config.max_memtable_size, in the size units of EntrySize
max_memtable_size == 2

Threads == {"t1", "t2"}
Keys == {"k1"}
Vals == {"a", "b"}

(* ------------------------------ values ------------------------------ *)

\* Option::None of a user value
NoneV == "None"
OptVals == Vals \cup {NoneV}

\* Option<SeqNo>::None (no seqno ceiling)
NoSeqno == 0 - 1

\* lsm_tree::Value { key, value, seqno, value_type }
Value(k, v, s, ty) ==
    [key |-> k, value |-> v, seqno |-> s, value_type |-> ty]

\* Option<Value>::None
NoItem == Value("", "", NoSeqno, "Missing")

\* the closures handed to fetch_update / update_fetch
Fns == {"flip", "delete"}

ApplyFn(f, x) ==
    IF f = "flip" THEN (IF x = "a" THEN "b" ELSE "a") ELSE NoneV

\* an item of a write batch: Batch::insert pushes a value, Batch::remove a tombstone
BatchItem(k, v, ty) == [key |-> k, value |-> v, value_type |-> ty]

BatchItems ==
    {BatchItem(k, "a", "Value") : k \in Keys}
        \cup {BatchItem(k, "", "Tombstone") : k \in Keys}

RECURSIVE SeqsUpTo(_, _)
SeqsUpTo(S, n) ==
    IF n = 0 THEN {<<>>}
    ELSE LET shorter == SeqsUpTo(S, n - 1)
         IN shorter \cup {Append(s, x) : s \in shorter, x \in S}

Batches == SeqsUpTo(BatchItems, MaxBatchItems) \ {<<>>}

Max(S) == CHOOSE x \in S : \A y \in S : y <= x
Min(S) == CHOOSE x \in S : \A y \in S : x <= y

(* ------------------------------- state ------------------------------ *)

VARIABLES
    lsn,                          \* TreeInner.lsn
    active_memtable,              \* TreeInner.active_memtable: a set of Values
    immutable_memtables,          \* TreeInner.immutable_memtables, oldest first
    segments,                     \* levels flattened, newest first
    journals,                     \* journal shard files, oldest first; the last is active
    approx_active_memtable_size,  \* TreeInner.approx_active_memtable_size
    shard_lock,                   \* holder of the journal shard lock, or "free"
    th,                           \* per caller thread: position and locals
    snapshots,                    \* seqno ceilings of the open snapshots
    open_snapshots,               \* TreeInner.open_snapshots
    hist,                         \* history: every batch appended to the journal, in order
    shard,                        \* the shard recovery of journal/shard.rs
    disk,                         \* the folder of the tree: journals, segments, manifest
    mgr,                          \* the FlushManager of flush/manager.rs
    locks,                        \* the locks each code path holds, in acquisition order
    fsync,                        \* the fsync thread, the stop signal and the owner of the tree
    range_out,                    \* the Range or Prefix handed out by create_range / create_prefix
    config,                       \* the Config of fjall/src/config.rs under construction
    folder,                       \* the folder Tree::open is called on
    scan                          \* a call of Tree::len and the iterator under it

treeVars ==
    <<lsn, active_memtable, immutable_memtables, segments, journals,
      approx_active_memtable_size, shard_lock, th, snapshots, open_snapshots, hist>>

\* the components a call of the tree leaves alone
apiVars == <<config, folder, scan>>

otherVars == <<disk, mgr, locks, fsync, range_out, apiVars>>

vars == <<treeVars, shard, otherVars>>

(* ----------------------------- read path ---------------------------- *)

\* MemTable::get(key, seqno) and Segment::get(key, seqno): the newest record of
\* the key below the ceiling.  A snapshot's ceiling is the value of the seqno
\* counter when it was opened, which is the seqno of the next write, so the
\* filter is strict (the doc test of Tree::snapshot pins this down).
MemTableGet(m, key, ceil) ==
    LET rs == {r \in m : r.key = key /\ (ceil = NoSeqno \/ r.seqno < ceil)}
    IN IF rs = {} THEN NoItem
       ELSE CHOOSE r \in rs : \A o \in rs : o.seqno <= r.seqno

\* a filter that lets tombstones through
keep_tombstone_value(item) == item

ignore_tombstone_value(item) ==
    IF item.value_type = "Tombstone" THEN NoItem ELSE item

\* the loop over immutable_memtables.iter().rev(): newest sealed memtable first
ImmutableGet(key, ceil) ==
    LET hits == {i \in 1..Len(immutable_memtables) :
                    MemTableGet(immutable_memtables[i], key, ceil) # NoItem}
    IN IF hits = {} THEN NoItem
       ELSE MemTableGet(immutable_memtables[Max(hits)], key, ceil)

\* the loop over get_all_segments_flattened(): newest segment first
SegmentsGet(key, ceil) ==
    LET hits == {i \in 1..Len(segments) : MemTableGet(segments[i], key, ceil) # NoItem}
    IN IF hits = {} THEN NoItem
       ELSE MemTableGet(segments[Min(hits)], key, ceil)

get_internal_entry(key, evict_tombstone, seqno) ==
    LET a == MemTableGet(active_memtable, key, seqno)
        i == ImmutableGet(key, seqno)
        s == SegmentsGet(key, seqno)
        item == IF a # NoItem THEN a ELSE IF i # NoItem THEN i ELSE s
    IN IF item # NoItem /\ evict_tombstone THEN ignore_tombstone_value(item) ELSE item

ItemValue(item) == IF item = NoItem THEN NoneV ELSE item.value

\* Tree::get as one uninterrupted call
Get(key) == ItemValue(get_internal_entry(key, TRUE, NoSeqno))

\* Snapshot::get of the i-th open snapshot
SnapshotGet(i, key) == ItemValue(get_internal_entry(key, TRUE, snapshots[i]))

\* every record of every layer
AllRecords ==
    active_memtable
        \cup UNION {immutable_memtables[i] : i \in 1..Len(immutable_memtables)}
        \cup UNION {segments[i] : i \in 1..Len(segments)}

\* Range over (..): merge of all layers under the ceiling, newest seqno per key,
\* tombstones dropped; the set of yielded keys
RangeKeys(ceil) ==
    LET rs == {r \in AllRecords : ceil = NoSeqno \/ r.seqno < ceil}
        newest == {r \in rs : \A o \in rs : o.key = r.key => o.seqno <= r.seqno}
    IN {r.key : r \in {n \in newest : n.value_type # "Tombstone"}}

(* --------------------------- caller threads ------------------------- *)

NoRet == [tag |-> "none", prev |-> NoneV, next |-> NoneV, value |-> NoneV]

Ret(tag, prev, next, value) == [tag |-> tag, prev |-> prev, next |-> next, value |-> value]

IdleThread ==
    [pc |-> "idle", op |-> "none", cont |-> "none", key |-> "", value |-> NoneV,
     value_type |-> "Value", expected |-> NoneV, next |-> NoneV, seqno |-> NoSeqno,
     fetched |-> NoneV, f |-> "none", pre |-> NoneV, items |-> <<>>, ret |-> NoRet,
     quiet |-> FALSE]

MarkDone(s) ==
    [i \in 1..Len(hist) |-> IF hist[i].seqno = s THEN [hist[i] EXCEPT !.done = TRUE]
                            ELSE hist[i]]

(* ---------------------------- write path ---------------------------- *)

\* a fetch_add that loses its increment
fetch_add_lsn_lost == lsn

\* self.lsn.fetch_add(1, ..): the counter after the call (the call returns lsn)
fetch_add_lsn == lsn + 1

\* bytes_written_to_disk + size_of::<UserKey>() + size_of::<UserData>() in
\* abstract units: a tombstone carries no value bytes
EntrySize(value_type) == IF value_type = "Tombstone" THEN 2 ELSE 3

\* fetch_update and update_fetch with their return values exchanged
FinishedExchanged(me) ==
    [me EXCEPT !.pc = "done",
               !.ret = CASE me.op = "fetch_update" -> Ret("value", NoneV, NoneV, me.next)
                         [] me.op = "update_fetch" -> Ret("value", NoneV, NoneV, me.fetched)
                         [] OTHER -> Ret("ok", NoneV, NoneV, NoneV)]

\* the value a finished call hands to its caller
Finished(me) ==
    [me EXCEPT !.pc = "done",
               !.ret = CASE me.op = "fetch_update" -> Ret("value", NoneV, NoneV, me.fetched)
                         [] me.op = "update_fetch" -> Ret("value", NoneV, NoneV, me.next)
                         [] OTHER -> Ret("ok", NoneV, NoneV, NoneV)]

\* Tree::insert and Tree::remove up to the call of append_entry: lock_shard(),
\* lsn.fetch_add and Value::new
LockAndStamp(t, op, k, v, ty) ==
    /\ th[t].pc = "idle"
    /\ shard_lock = "free"
    /\ lsn < MaxSeqno
    /\ shard_lock' = t
    /\ lsn' = fetch_add_lsn
    /\ th' = [th EXCEPT ![t] = [IdleThread EXCEPT !.pc = "append", !.op = op, !.key = k,
                                                  !.value = v, !.value_type = ty,
                                                  !.seqno = lsn]]
    /\ UNCHANGED <<active_memtable, immutable_memtables, segments, journals,
                   approx_active_memtable_size, snapshots, open_snapshots, hist, shard, otherVars>>

insert(t, k, v) == LockAndStamp(t, "insert", k, v, "Value")

remove(t, k) == LockAndStamp(t, "remove", k, "", "Tombstone")

\* append_entry, first half: shard.write(&value) then drop(shard)
AppendJournal(t) ==
    /\ th[t].pc = "append"
    /\ journals' = [journals EXCEPT ![Len(journals)] =
                       Append(@, [seqno |-> th[t].seqno,
                                  items |-> <<BatchItem(th[t].key, th[t].value,
                                                         th[t].value_type)>>])]
    /\ hist' = Append(hist, [seqno |-> th[t].seqno,
                             items |-> <<BatchItem(th[t].key, th[t].value,
                                                    th[t].value_type)>>,
                             kind |-> IF th[t].cont = "cas" THEN "cas" ELSE "write",
                             expected |-> th[t].expected,
                             done |-> FALSE])
    /\ shard_lock' = "free"
    /\ th' = [th EXCEPT ![t].pc = "memtable"]
    /\ UNCHANGED <<lsn, active_memtable, immutable_memtables, segments,
                   approx_active_memtable_size, snapshots, open_snapshots, shard, otherVars>>

\* append_entry, second half: the insert into the active memtable under its read
\* lock, the size bookkeeping and the threshold test on the size before the add
AppendMemtable(t) ==
    /\ th[t].pc = "memtable"
    /\ active_memtable' = active_memtable
           \cup {Value(th[t].key, th[t].value, th[t].seqno, th[t].value_type)}
    /\ approx_active_memtable_size' =
           approx_active_memtable_size + EntrySize(th[t].value_type)
    /\ IF approx_active_memtable_size > max_memtable_size
       THEN /\ th' = [th EXCEPT ![t].pc = "flush"]
            /\ UNCHANGED hist
       ELSE /\ th' = [th EXCEPT ![t] = Finished(th[t])]
            /\ hist' = MarkDone(th[t].seqno)
    /\ UNCHANGED <<lsn, immutable_memtables, segments, journals, shard_lock,
                   snapshots, open_snapshots, shard, otherVars>>

\* crate::flush::start: under the active memtable's write lock the memtable is
\* sealed, an empty one installed and the journal rotated (JournalShard::rotate
\* takes &mut self, so the shard lock is needed); an empty memtable is left alone
flush_start ==
    /\ shard_lock = "free"
    /\ Len(immutable_memtables) < MaxImmutable
    /\ IF active_memtable = {}
       THEN UNCHANGED <<active_memtable, immutable_memtables, journals,
                        approx_active_memtable_size>>
       ELSE /\ immutable_memtables' = Append(immutable_memtables, active_memtable)
            /\ active_memtable' = {}
            /\ journals' = Append(journals, <<>>)
            /\ approx_active_memtable_size' = 0

\* append_entry, the end: crate::flush::start(self)? and Ok(())
AppendFlush(t) ==
    /\ th[t].pc = "flush"
    /\ flush_start
    /\ th' = [th EXCEPT ![t] = Finished(th[t])]
    /\ hist' = MarkDone(th[t].seqno)
    /\ UNCHANGED <<lsn, segments, shard_lock, snapshots, open_snapshots, shard, otherVars>>

\* Tree::force_memtable_flush
force_memtable_flush ==
    /\ active_memtable # {}
    /\ flush_start
    /\ UNCHANGED <<lsn, segments, shard_lock, th, snapshots, open_snapshots, hist, shard,
                   otherVars>>

\* the caller takes the result of a finished call
Return(t) ==
    /\ th[t].pc = "done"
    /\ th' = [th EXCEPT ![t] = IdleThread]
    /\ UNCHANGED <<lsn, active_memtable, immutable_memtables, segments, journals,
                   approx_active_memtable_size, shard_lock, snapshots, open_snapshots,
                   hist, shard, otherVars>>

(* ------------------------------ batches ----------------------------- *)

\* Batch::commit: lock_shard(), one lsn.fetch_add, the seqno stamped on every item
BatchCommit(t, items) ==
    /\ th[t].pc = "idle"
    /\ shard_lock = "free"
    /\ lsn < MaxSeqno
    /\ shard_lock' = t
    /\ lsn' = fetch_add_lsn
    /\ th' = [th EXCEPT ![t] = [IdleThread EXCEPT !.pc = "batch_write", !.op = "batch",
                                                  !.items = items, !.seqno = lsn]]
    /\ UNCHANGED <<active_memtable, immutable_memtables, segments, journals,
                   approx_active_memtable_size, snapshots, open_snapshots, hist, shard, otherVars>>

\* Batch::commit: shard.write_batch, shard.flush, Ok(()); the block that applied
\* the items to the memtable is commented out in the source
BatchWrite(t) ==
    /\ th[t].pc = "batch_write"
    /\ journals' = [journals EXCEPT ![Len(journals)] =
                       Append(@, [seqno |-> th[t].seqno, items |-> th[t].items])]
    /\ hist' = Append(hist, [seqno |-> th[t].seqno, items |-> th[t].items,
                             kind |-> "batch", expected |-> NoneV, done |-> TRUE])
    /\ shard_lock' = "free"
    /\ th' = [th EXCEPT ![t] = Finished(th[t])]
    /\ UNCHANGED <<lsn, active_memtable, immutable_memtables, segments,
                   approx_active_memtable_size, snapshots, open_snapshots, shard, otherVars>>

(* ------------------- get, compare_and_swap, updates ----------------- *)

\* the match of compare_and_swap over (self.get(key)?, expected, next): "write" when
\* an entry is appended, "ok" for Ok(Ok(())) without a write, "mismatch" for the
\* CompareAndSwapError { prev, next }
CasOutcome(current, expected, next) ==
    IF current # NoneV
    THEN IF expected # NoneV
         THEN IF current # expected
              THEN Ret("mismatch", current, next, NoneV)
              ELSE Ret("write", NoneV, next, NoneV)
         ELSE Ret("mismatch", NoneV, next, NoneV)
    ELSE IF expected # NoneV
         THEN Ret("mismatch", NoneV, next, NoneV)
         ELSE IF next # NoneV
              THEN Ret("write", NoneV, next, NoneV)
              ELSE Ret("ok", NoneV, next, NoneV)

\* compare_and_swap after its self.get(key)? returned current
CasDecide(t, current) ==
    LET me == th[t]
        o == CasOutcome(current, me.expected, me.next)
    IN CASE o.tag = "write" ->
              /\ th' = [th EXCEPT ![t] =
                           [me EXCEPT !.pc = "append",
                                      !.value = IF me.next = NoneV THEN "" ELSE me.next,
                                      !.value_type = IF me.next = NoneV THEN "Tombstone"
                                                     ELSE "Value"]]
              /\ UNCHANGED shard_lock
         [] o.tag = "ok" ->
              /\ th' = [th EXCEPT ![t] = Finished(me)]
              /\ shard_lock' = "free"
         [] OTHER ->
              /\ th' = [th EXCEPT ![t] =
                           IF me.op = "cas"
                           THEN [me EXCEPT !.pc = "done", !.ret = o]
                           ELSE [me EXCEPT !.pc = "cas_lock", !.fetched = o.prev]]
              /\ shard_lock' = "free"

\* what the caller of self.get(key) does with the item found
AfterGet(t, item) ==
    LET me == th[t]
        current == ItemValue(item)
    IN CASE me.cont = "get" ->
              /\ th' = [th EXCEPT ![t] =
                           [me EXCEPT !.pc = "done",
                                      !.ret = Ret("value", NoneV, NoneV, current)]]
              /\ UNCHANGED shard_lock
         [] me.cont = "fetch" ->
              /\ th' = [th EXCEPT ![t] = [me EXCEPT !.pc = "cas_lock", !.fetched = current]]
              /\ UNCHANGED shard_lock
         [] OTHER -> CasDecide(t, current)

\* Tree::get
get(t, k) ==
    /\ th[t].pc = "idle"
    /\ th' = [th EXCEPT ![t] = [IdleThread EXCEPT !.pc = "get_active", !.op = "get",
                                                  !.cont = "get", !.key = k]]
    /\ UNCHANGED <<lsn, active_memtable, immutable_memtables, segments, journals,
                   approx_active_memtable_size, shard_lock, snapshots, open_snapshots,
                   hist, shard, otherVars>>

\* get_internal_entry: the active memtable, under its read lock
GetActive(t) ==
    /\ th[t].pc = "get_active"
    /\ LET item == MemTableGet(active_memtable, th[t].key, NoSeqno)
       IN IF item # NoItem
          THEN AfterGet(t, ignore_tombstone_value(item))
          ELSE /\ th' = [th EXCEPT ![t].pc = "get_immutable"]
               /\ UNCHANGED shard_lock
    /\ UNCHANGED <<lsn, active_memtable, immutable_memtables, segments, journals,
                   approx_active_memtable_size, snapshots, open_snapshots, hist, shard, otherVars>>

\* get_internal_entry: the sealed memtables, under their read lock
GetImmutable(t) ==
    /\ th[t].pc = "get_immutable"
    /\ LET item == ImmutableGet(th[t].key, NoSeqno)
       IN IF item # NoItem
          THEN AfterGet(t, ignore_tombstone_value(item))
          ELSE /\ th' = [th EXCEPT ![t].pc = "get_segments"]
               /\ UNCHANGED shard_lock
    /\ UNCHANGED <<lsn, active_memtable, immutable_memtables, segments, journals,
                   approx_active_memtable_size, snapshots, open_snapshots, hist, shard, otherVars>>

\* get_internal_entry: the segments, under the read lock of the levels
GetSegments(t) ==
    /\ th[t].pc = "get_segments"
    /\ LET item == SegmentsGet(th[t].key, NoSeqno)
       IN IF item # NoItem
          THEN AfterGet(t, ignore_tombstone_value(item))
          ELSE AfterGet(t, NoItem)
    /\ UNCHANGED <<lsn, active_memtable, immutable_memtables, segments, journals,
                   approx_active_memtable_size, snapshots, open_snapshots, hist, shard, otherVars>>

\* the compare_and_swap of an update starts when every other caller has returned
Quiet(t, op) ==
    /\ op \in {"fetch_update", "update_fetch"}
    /\ \A u \in Threads \ {t} : th[u].pc = "done"

\* compare_and_swap: lock_shard() and increment_lsn(), before self.get(key)
CasLock(t, op, k, expected, next, f, pre) ==
    /\ shard_lock = "free"
    /\ lsn < MaxSeqno
    /\ shard_lock' = t
    /\ lsn' = fetch_add_lsn
    /\ th' = [th EXCEPT ![t] = [IdleThread EXCEPT !.pc = "get_active", !.op = op,
                                                  !.cont = "cas", !.key = k,
                                                  !.expected = expected, !.next = next,
                                                  !.fetched = expected, !.f = f,
                                                  !.pre = pre, !.seqno = lsn,
                                                  !.quiet = Quiet(t, op)]]
    /\ UNCHANGED <<active_memtable, immutable_memtables, segments, journals,
                   approx_active_memtable_size, snapshots, open_snapshots, hist, shard, otherVars>>

compare_and_swap(t, k, expected, next) ==
    /\ th[t].pc = "idle"
    /\ CasLock(t, "cas", k, expected, next, "none", NoneV)

\* fetch_update and update_fetch: let mut fetched = self.get(key)?
StartUpdate(t, op, k, f) ==
    /\ th[t].pc = "idle"
    /\ th' = [th EXCEPT ![t] = [IdleThread EXCEPT !.pc = "get_active", !.op = op,
                                                  !.cont = "fetch", !.key = k, !.f = f,
                                                  !.pre = Get(k)]]
    /\ UNCHANGED <<lsn, active_memtable, immutable_memtables, segments, journals,
                   approx_active_memtable_size, shard_lock, snapshots, open_snapshots,
                   hist, shard, otherVars>>

fetch_update(t, k, f) == StartUpdate(t, "fetch_update", k, f)

update_fetch(t, k, f) == StartUpdate(t, "update_fetch", k, f)

\* self.fetch_update(key, |_| None::<UserData>)
remove_entry(t, k) == fetch_update(t, k, "delete")

\* the loop of fetch_update and update_fetch: next = f(expected), then
\* self.compare_and_swap(key, expected, next)
UpdateLoop(t) ==
    /\ th[t].pc = "cas_lock"
    /\ CasLock(t, th[t].op, th[t].key, th[t].fetched, ApplyFn(th[t].f, th[t].fetched),
               th[t].f, th[t].pre)

(* ------------------------------ snapshots --------------------------- *)

\* Tree::snapshot: the current value of the seqno counter becomes the ceiling
snapshot ==
    /\ Len(snapshots) < MaxSnapshots
    /\ snapshots' = Append(snapshots, lsn)
    /\ open_snapshots' = open_snapshots + 1
    /\ UNCHANGED <<lsn, active_memtable, immutable_memtables, segments, journals,
                   approx_active_memtable_size, shard_lock, th, hist, shard, otherVars>>

\* the snapshot is dropped
DropSnapshot(i) ==
    /\ i \in 1..Len(snapshots)
    /\ snapshots' = SubSeq(snapshots, 1, i - 1) \o SubSeq(snapshots, i + 1, Len(snapshots))
    /\ open_snapshots' = open_snapshots - 1
    /\ UNCHANGED <<lsn, active_memtable, immutable_memtables, segments, journals,
                   approx_active_memtable_size, shard_lock, th, hist, shard, otherVars>>

(* ------------------------- flush and compaction --------------------- *)

\* the flush worker: the oldest sealed memtable becomes the newest segment of L0,
\* then leaves the immutable map, then its journal shard is deleted
FlushWorker ==
    /\ immutable_memtables # <<>>
    /\ Len(segments) < MaxSegments
    /\ segments' = <<Head(immutable_memtables)>> \o segments
    /\ immutable_memtables' = Tail(immutable_memtables)
    /\ journals' = Tail(journals)
    /\ UNCHANGED <<lsn, active_memtable, approx_active_memtable_size, shard_lock, th,
                   snapshots, open_snapshots, hist, shard, otherVars>>

\* the output of a compaction of all segments: per key the record with the highest
\* seqno, without the tombstones no open snapshot's ceiling lies below
Compacted ==
    LET all == UNION {segments[i] : i \in 1..Len(segments)}
        newest == {r \in all : \A o \in all : o.key = r.key => o.seqno <= r.seqno}
        evict(r) == /\ r.value_type = "Tombstone"
                    /\ \A i \in 1..Len(snapshots) : r.seqno <= snapshots[i]
    IN {r \in newest : ~evict(r)}

\* Tree::do_major_compaction
do_major_compaction ==
    /\ segments # <<>>
    /\ segments' = IF Compacted = {} THEN <<>> ELSE <<Compacted>>
    /\ segments' # segments
    /\ UNCHANGED <<lsn, active_memtable, immutable_memtables, journals,
                   approx_active_memtable_size, shard_lock, th, snapshots, open_snapshots,
                   hist, shard, otherVars>>

(* ------------------------ journal shard recovery -------------------- *)

\* batches written to one journal shard before the crash
MaxJournalBatches == 2

Partitions == {"p1", "p2"}

\* crate::batch::Item { partition, key, value, value_type }
JournalItem(p, k, v, ty) == [partition |-> p, key |-> k, value |-> v, value_type |-> ty]

NoJournalItem == JournalItem("", "", "", "Missing")

JournalItems ==
    {JournalItem("p1", "k1", "a", "Value"), JournalItem("p2", "k1", "", "Tombstone")}

JournalBatches == SeqsUpTo(JournalItems, MaxBatchItems) \ {<<>>}

\* whitelist: Option<&[Arc<str>]>
NoWhitelist == [some |-> FALSE, names |-> {}]

Whitelists == {NoWhitelist} \cup {[some |-> TRUE, names |-> S] : S \in SUBSET Partitions}

\* the markers of the journal, Start { item_count, seqno }, Item { .. }, End(checksum)
StartMarker(n, s) ==
    [tag |-> "Start", item_count |-> n, seqno |-> s, item |-> NoJournalItem, checksum |-> 0]

ItemMarker(item) ==
    [tag |-> "Item", item_count |-> 0, seqno |-> 0, item |-> item, checksum |-> 0]

EndMarker(c) ==
    [tag |-> "End", item_count |-> 0, seqno |-> 0, item |-> NoJournalItem, checksum |-> c]

\* the bytes of a string, one code per string of the model
StrBytes(str) ==
    CASE str = "p1" -> <<2, 112, 49>>
      [] str = "p2" -> <<2, 112, 50>>
      [] str = "k1" -> <<2, 107, 49>>
      [] str = "a" -> <<1, 97>>
      [] str = "b" -> <<1, 98>>
      [] OTHER -> <<0>>

\* Marker::Item serialized: tag, partition, key, value type, value (each string
\* with its length in front)
Serialize(item) ==
    <<1>> \o StrBytes(item.partition) \o StrBytes(item.key)
          \o <<IF item.value_type = "Tombstone" THEN 1 ELSE 0>> \o StrBytes(item.value)

\* hasher.update(&bytes): the running checksum, folded over the bytes (a 16 bit
\* checksum stands for the CRC-32)
RECURSIVE hasher_update(_, _)
hasher_update(h, bytes) ==
    IF bytes = <<>> THEN h
    ELSE hasher_update((h * 31 + Head(bytes) + 1) % 65521, Tail(bytes))

\* the checksum the writer puts into the End marker of a batch
RECURSIVE Checksum(_, _)
Checksum(h, items) ==
    IF items = <<>> THEN h
    ELSE Checksum(hasher_update(h, Serialize(Head(items))), Tail(items))

\* write_batch: Start + Item* + End(crc), contiguous
BatchMarkers(items, seqno) ==
    <<StartMarker(Len(items), seqno)>>
        \o [i \in 1..Len(items) |-> ItemMarker(items[i])]
        \o <<EndMarker(Checksum(0, items))>>

\* a batch commit appends its markers to the shard under the shard lock
write_batch(items) ==
    /\ shard.phase = "writing"
    /\ Len(shard.commits) < MaxJournalBatches
    /\ shard' = [shard EXCEPT !.file = @ \o BatchMarkers(items, shard.next_seqno),
                              !.commits = Append(@, [seqno |-> shard.next_seqno,
                                                     items |-> items]),
                              !.next_seqno = @ + 1]
    /\ UNCHANGED <<treeVars, otherVars>>

\* the process dies: the first n markers of the shard are on disk
Crash(n) ==
    /\ shard.phase = "writing"
    /\ n \in 0..Len(shard.file)
    /\ shard' = [shard EXCEPT !.phase = "crashed", !.file = SubSeq(@, 1, n), !.cut = n]
    /\ UNCHANGED <<treeVars, otherVars>>

\* recover_and_repair up to its loop: the reader is opened, the locals initialized
recover_and_repair(whitelist) ==
    /\ shard.phase = "crashed"
    /\ shard' = [shard EXCEPT !.phase = "reading", !.whitelist = whitelist, !.pos = 0,
                              !.hasher = 0, !.is_in_batch = FALSE, !.batch_counter = 0,
                              !.batch_seqno = 0, !.last_valid_pos = 0, !.items = <<>>,
                              !.found = shard.file]
    /\ UNCHANGED <<treeVars, otherVars>>

\* a discard that leaves the file as it is
NotTruncated(s) ==
    [s EXCEPT !.phase = "done", !.result = "Ok"]

\* file.set_len(last_valid_pos), sync_all and break 'a; nothing after the loop
\* changes the outcome, which is Ok(())
Truncated(s) ==
    [s EXCEPT !.file = SubSeq(@, 1, s.last_valid_pos), !.phase = "done", !.result = "Ok"]

\* return Err(crate::Error::JournalRecovery(err))
Failed(s, err) == [s EXCEPT !.phase = "done", !.result = err]

\* the test of the whitelist in the drain loop
Admits(whitelist, partition) == whitelist.some => partition \in whitelist.names

\* the drain loop of the End arm: the pending items the whitelist admits go into
\* the memtable of their partition with the seqno of the batch
Drained(s) ==
    [p \in Partitions |->
        s.memtables[p] \cup
            {Value(s.items[i].key, s.items[i].value, s.batch_seqno, s.items[i].value_type) :
                i \in {j \in 1..Len(s.items) : /\ s.items[j].partition = p
                                               /\ Admits(s.whitelist, p)}}]

\* an Item arm that inserts the item at once
InsertItemAtOnce(s, item) ==
    [s EXCEPT !.memtables[item.partition] =
                  IF Admits(s.whitelist, item.partition)
                  THEN @ \cup {Value(item.key, item.value, s.batch_seqno, item.value_type)}
                  ELSE @]

\* items.push(BatchItem { .. })
PushItem(s, item) ==
    [s EXCEPT !.items = Append(@, item)]

\* a Start arm that keeps the seqno of the batch before
OnStartStale(s, m) ==
    IF s.is_in_batch
    THEN Truncated(s)
    ELSE [s EXCEPT !.is_in_batch = TRUE, !.batch_counter = m.item_count, !.pos = @ + 1]

\* the arm Marker::Start { item_count, seqno }
OnStart(s, m) ==
    IF s.is_in_batch
    THEN Truncated(s)
    ELSE [s EXCEPT !.is_in_batch = TRUE, !.batch_counter = m.item_count,
                   !.batch_seqno = m.seqno, !.pos = @ + 1]

\* an End arm that skips an End marker met outside a batch and reads on
OnEndSkipsStray(s, m, journal_file_pos) ==
    IF s.batch_counter > 0 THEN Failed(s, "InsufficientLength")
    ELSE IF ~s.is_in_batch THEN [s EXCEPT !.pos = @ + 1]
    ELSE IF s.hasher # m.checksum THEN Failed(s, "CrcCheck")
    ELSE [s EXCEPT !.hasher = 0, !.is_in_batch = FALSE, !.batch_counter = 0,
                   !.memtables = Drained(s), !.items = <<>>,
                   !.last_valid_pos = journal_file_pos, !.pos = @ + 1]

\* the arm Marker::End(checksum)
OnEnd(s, m, journal_file_pos) ==
    IF s.batch_counter > 0 THEN Failed(s, "InsufficientLength")
    ELSE IF ~s.is_in_batch THEN Truncated(s)
    ELSE IF s.hasher # m.checksum THEN Failed(s, "CrcCheck")
    ELSE [s EXCEPT !.hasher = 0, !.is_in_batch = FALSE, !.batch_counter = 0,
                   !.memtables = Drained(s), !.items = <<>>,
                   !.last_valid_pos = journal_file_pos, !.pos = @ + 1]

\* an Item arm that heals a surplus item by truncation
OnItemHealsSurplus(s, m) ==
    LET h == [s EXCEPT !.hasher = hasher_update(@, Serialize(m.item))]
    IN IF ~h.is_in_batch \/ h.batch_counter = 0 THEN Truncated(h)
       ELSE PushItem([h EXCEPT !.batch_counter = @ - 1, !.pos = @ + 1], m.item)

\* the arm Marker::Item { .. }: the hasher is fed before the batch state is tested
OnItem(s, m) ==
    LET h == [s EXCEPT !.hasher = hasher_update(@, Serialize(m.item))]
    IN IF ~h.is_in_batch THEN Truncated(h)
       ELSE IF h.batch_counter = 0 THEN Failed(h, "TooManyItems")
       ELSE PushItem([h EXCEPT !.batch_counter = @ - 1, !.pos = @ + 1], m.item)

\* one turn of the loop 'a over the markers of the shard, by the marker read; the
\* reader hands out the position behind the marker
RecoverMarker(tag) ==
    /\ shard.phase = "reading"
    /\ shard.pos < Len(shard.file)
    /\ shard.file[shard.pos + 1].tag = tag
    /\ UNCHANGED <<treeVars, otherVars>>

RecoverStart ==
    /\ RecoverMarker("Start")
    /\ shard' = OnStart(shard, shard.file[shard.pos + 1])

RecoverItem ==
    /\ RecoverMarker("Item")
    /\ shard' = OnItem(shard, shard.file[shard.pos + 1])

RecoverEnd ==
    /\ RecoverMarker("End")
    /\ shard' = OnEnd(shard, shard.file[shard.pos + 1], shard.pos + 1)

\* an end of the file that leaves an unterminated last batch in the file
RecoverEofKeepsTail ==
    /\ shard.phase = "reading"
    /\ shard.pos = Len(shard.file)
    /\ shard' = [shard EXCEPT !.phase = "done", !.result = "Ok"]
    /\ UNCHANGED <<treeVars, otherVars>>

\* the reader is exhausted: an unterminated last batch is cut off, then Ok(())
RecoverEof ==
    /\ shard.phase = "reading"
    /\ shard.pos = Len(shard.file)
    /\ shard' = IF shard.is_in_batch THEN Truncated(shard)
                ELSE [shard EXCEPT !.phase = "done", !.result = "Ok"]
    /\ UNCHANGED <<treeVars, otherVars>>

\* recover_and_repair is called again, with the same whitelist and new memtables, on
\* the file the first call left
recover_again ==
    /\ shard.phase = "done" /\ shard.result = "Ok" /\ shard.run = 1
    /\ shard' = [shard EXCEPT !.phase = "reading", !.pos = 0,
                              !.hasher = 0, !.is_in_batch = FALSE, !.batch_counter = 0,
                              !.batch_seqno = 0, !.last_valid_pos = 0, !.items = <<>>,
                              !.found = shard.file, !.result = "none",
                              !.memtables = [p \in Partitions |-> {}],
                              !.run = 2,
                              !.first = [file |-> shard.file, memtables |-> shard.memtables]]
    /\ UNCHANGED <<treeVars, otherVars>>

(* ------------------------- a damaged shard -------------------------- *)

DamageKinds == {"drop", "dup", "more", "less"}

\* a marker with other content: a Start with another item count, an Item with
\* another item, an End with another checksum
Altered(m, d) ==
    CASE m.tag = "Start" -> [m EXCEPT !.item_count = @ + d]
      [] m.tag = "Item" -> [m EXCEPT !.item = CHOOSE it \in JournalItems : it # m.item]
      [] OTHER -> [m EXCEPT !.checksum = (@ + 1) % 65521]

\* the shard file with its i-th marker lost, written twice or altered
Damaged(file, i, kind) ==
    CASE kind = "drop" -> SubSeq(file, 1, i - 1) \o SubSeq(file, i + 1, Len(file))
      [] kind = "dup" -> SubSeq(file, 1, i) \o SubSeq(file, i, Len(file))
      [] kind = "more" -> [file EXCEPT ![i] = Altered(@, 1)]
      [] OTHER -> [file EXCEPT ![i] = Altered(@, -1)]

\* the shard file JournalShardReader is given is not the one write_batch left:
\* one marker of it is damaged
Corrupt(i, kind) ==
    /\ shard.phase = "writing"
    /\ i \in 1..Len(shard.file)
    /\ kind = "less" => shard.file[i].tag = "Start"
    /\ shard' = [shard EXCEPT !.phase = "crashed", !.file = Damaged(@, i, kind),
                              !.cut = Len(shard.file)]
    /\ UNCHANGED <<treeVars, otherVars>>

(* ------------------------- range and prefix ------------------------- *)

\* records in the tree a Range is made of
MaxRangeRecords == 3

\* user keys as byte strings: "a", "aa", "b"
RangeKeySet == {<<1>>, <<1, 1>>, <<2>>}

\* the order of byte strings
RECURSIVE KeyLess(_, _)
KeyLess(a, b) ==
    IF b = <<>> THEN FALSE
    ELSE IF a = <<>> THEN TRUE
    ELSE IF Head(a) # Head(b) THEN Head(a) < Head(b)
    ELSE KeyLess(Tail(a), Tail(b))

KeyLeq(a, b) == a = b \/ KeyLess(a, b)

\* key.starts_with(prefix)
StartsWith(key, prefix) ==
    Len(prefix) <= Len(key) /\ SubSeq(key, 1, Len(prefix)) = prefix

\* std::ops::Bound
Unbounded == [kind |-> "Unbounded", key |-> <<>>]
Included(k) == [kind |-> "Included", key |-> k]
Excluded(k) == [kind |-> "Excluded", key |-> k]

BoundsOf(lo, hi) == [lo |-> lo, hi |-> hi]

RangeBoundSet == {Unbounded} \cup {Included(k) : k \in RangeKeySet}
                     \cup {Excluded(k) : k \in RangeKeySet}

\* create_prefix with the prefix itself left out of the bounds
PrefixBoundsExcluded(prefix) == BoundsOf(Excluded(prefix), Unbounded)

\* create_prefix: bounds = (Included(prefix.clone()), Unbounded)
PrefixBounds(prefix) == BoundsOf(Included(prefix), Unbounded)

\* RangeBounds::contains
InBounds(k, bounds) ==
    /\ CASE bounds.lo.kind = "Unbounded" -> TRUE
         [] bounds.lo.kind = "Included" -> KeyLeq(bounds.lo.key, k)
         [] bounds.lo.kind = "Excluded" -> KeyLess(bounds.lo.key, k)
    /\ CASE bounds.hi.kind = "Unbounded" -> TRUE
         [] bounds.hi.kind = "Included" -> KeyLeq(k, bounds.hi.key)
         [] bounds.hi.kind = "Excluded" -> KeyLess(k, bounds.hi.key)

\* the lowest and the highest key of a segment (metadata.key_range)
MinKey(records) == CHOOSE r \in {x.key : x \in records} :
                       \A o \in records : KeyLeq(r, o.key)

MaxKey(records) == CHOOSE r \in {x.key : x \in records} :
                       \A o \in records : KeyLeq(o.key, r)

\* Segment::check_key_range_overlap: the key range of the segment meets the bounds
check_key_range_overlap(records, bounds) ==
    /\ CASE bounds.lo.kind = "Unbounded" -> TRUE
         [] bounds.lo.kind = "Included" -> KeyLeq(bounds.lo.key, MaxKey(records))
         [] bounds.lo.kind = "Excluded" -> KeyLess(bounds.lo.key, MaxKey(records))
    /\ CASE bounds.hi.kind = "Unbounded" -> TRUE
         [] bounds.hi.kind = "Included" -> KeyLeq(MinKey(records), bounds.hi.key)
         [] bounds.hi.kind = "Excluded" -> KeyLess(MinKey(records), bounds.hi.key)

\* segment_info: the segments of the levels that pass the filter
segment_info(bounds) ==
    {segments[i] : i \in {j \in 1..Len(segments) :
                             check_key_range_overlap(segments[j], bounds)}}

\* the records the MemTableGuard and segment_info give the iterator
RangeSources(bounds) ==
    active_memtable
        \cup UNION {immutable_memtables[i] : i \in 1..Len(immutable_memtables)}
        \cup UNION segment_info(bounds)

\* ascending by key
RECURSIVE SortByKey(_)
SortByKey(records) ==
    IF records = {} THEN <<>>
    ELSE LET first == CHOOSE r \in records : \A o \in records : KeyLeq(r.key, o.key)
         IN <<first>> \o SortByKey(records \ {first})

\* the merged iterator: the records that pass the filter and the ceiling, the
\* newest seqno of every key, tombstones dropped, ascending by key
Merged(sources, wanted, seqno) ==
    LET rs == {r \in sources : r.key \in wanted /\ (seqno = NoSeqno \/ r.seqno < seqno)}
        newest == {r \in rs : \A o \in rs : o.key = r.key => o.seqno <= r.seqno}
    IN SortByKey({r \in newest : r.value_type # "Tombstone"})

\* Tree::create_range (range, iter, Snapshot::range), collected to the end
create_range(lo, hi, seqno) ==
    /\ ~range_out.made
    /\ LET bounds == BoundsOf(lo, hi)
           wanted == {k \in RangeKeySet : InBounds(k, bounds)}
       IN range_out' = [made |-> TRUE, kind |-> "range", bounds |-> bounds,
                        prefix |-> <<>>, seqno |-> seqno,
                        items |-> Merged(RangeSources(bounds), wanted, seqno)]
    /\ UNCHANGED <<treeVars, shard, disk, mgr, locks, fsync, apiVars>>

\* Tree::create_prefix (prefix, Snapshot::prefix), collected to the end
create_prefix(prefix, seqno) ==
    /\ ~range_out.made
    /\ LET bounds == PrefixBounds(prefix)
           wanted == {k \in RangeKeySet : StartsWith(k, prefix)}
       IN range_out' = [made |-> TRUE, kind |-> "prefix", bounds |-> bounds,
                        prefix |-> prefix, seqno |-> seqno,
                        items |-> Merged(RangeSources(bounds), wanted, seqno)]
    /\ UNCHANGED <<treeVars, shard, disk, mgr, locks, fsync, apiVars>>

(* ------------------------------ failures ---------------------------- *)

\* a call that returns Err
Errored(me) == [me EXCEPT !.pc = "done", !.ret = Ret("err", NoneV, NoneV, NoneV)]

\* append_entry: shard.write(&value)? fails; the guard of the shard is dropped
\* with the return
AppendJournalFails(t) ==
    /\ th[t].pc = "append"
    /\ shard_lock' = "free"
    /\ th' = [th EXCEPT ![t] = Errored(th[t])]
    /\ UNCHANGED <<lsn, active_memtable, immutable_memtables, segments, journals,
                   approx_active_memtable_size, snapshots, open_snapshots, hist, shard,
                   otherVars>>

\* append_entry: crate::flush::start(self)? fails, after the journal write and
\* the memtable insert
AppendFlushFails(t) ==
    /\ th[t].pc = "flush"
    /\ th' = [th EXCEPT ![t] = Errored(th[t])]
    /\ UNCHANGED <<lsn, active_memtable, immutable_memtables, segments, journals,
                   approx_active_memtable_size, shard_lock, snapshots, open_snapshots,
                   hist, shard, otherVars>>

\* Batch::commit: shard.write_batch(..)? fails
BatchWriteFails(t) ==
    /\ th[t].pc = "batch_write"
    /\ shard_lock' = "free"
    /\ th' = [th EXCEPT ![t] = Errored(th[t])]
    /\ UNCHANGED <<lsn, active_memtable, immutable_memtables, segments, journals,
                   approx_active_memtable_size, snapshots, open_snapshots, hist, shard,
                   otherVars>>

\* Batch::commit: shard.flush()? fails, after write_batch put the batch into the
\* journal
BatchFlushFails(t) ==
    /\ th[t].pc = "batch_write"
    /\ journals' = [journals EXCEPT ![Len(journals)] =
                       Append(@, [seqno |-> th[t].seqno, items |-> th[t].items])]
    /\ hist' = Append(hist, [seqno |-> th[t].seqno, items |-> th[t].items,
                             kind |-> "batch", expected |-> NoneV, done |-> FALSE])
    /\ shard_lock' = "free"
    /\ th' = [th EXCEPT ![t] = Errored(th[t])]
    /\ UNCHANGED <<lsn, active_memtable, immutable_memtables, segments,
                   approx_active_memtable_size, snapshots, open_snapshots, shard, otherVars>>

(* --------------------------- the tree on disk ----------------------- *)

\* writes accepted before the first crash
MaxDiskWrites == 2
\* crashes of the process
MaxCrashes == 2

DiskKeys == {"k1", "k2"}

RemoveAt(seq, i) == SubSeq(seq, 1, i - 1) \o SubSeq(seq, i + 1, Len(seq))

\* a segment folder: complete once its metadata file is written
SegmentDir(id, complete, records) == [id |-> id, complete |-> complete, records |-> records]

DirIds(d) == {x.id : x \in d.dirs}

DirOf(d, id) == CHOOSE x \in d.dirs : x.id = id

ManifestIds(d) == {d.manifest[i] : i \in 1..Len(d.manifest)}

\* the levels as Levels::recover builds them from the manifest and the segments
LevelsOf(d) == [i \in 1..Len(d.manifest) |-> DirOf(d, d.manifest[i]).records]

\* the memtable Journal::recover builds from the batches of a journal
Replayed(batches) ==
    UNION {{Value(batches[b].items[i].key, batches[b].items[i].value, batches[b].seqno,
                  batches[b].items[i].value_type) : i \in 1..Len(batches[b].items)} :
              b \in 1..Len(batches)}

\* the bytes a value takes in the journal
ValueBytes(value_type) == EntrySize(value_type) - 1

\* fs_extra::dir::get_size of a journal folder
RECURSIVE JournalSize(_)
JournalSize(batches) ==
    IF batches = <<>> THEN 0
    ELSE LET b == Head(batches)
             RECURSIVE ItemsSize(_)
             ItemsSize(its) == IF its = <<>> THEN 0
                               ELSE ValueBytes(Head(its).value_type) + ItemsSize(Tail(its))
         IN ItemsSize(b.items) + JournalSize(Tail(batches))

\* the rotation of the journal when the active memtable is sealed: the old journal
\* is synced and marked as flushing (.flush), a new journal folder is active
Rotated(d) ==
    [d EXCEPT !.marked = @ \cup {d.jids[Len(d.jids)]},
              !.jids = Append(@, d.next_id),
              !.next_id = @ + 1,
              !.synced = 0]

\* crate::flush::start on the running tree, with its effect on the folder
DiskSeal ==
    /\ disk.phase = "up"
    /\ active_memtable # {}
    /\ flush_start
    /\ disk' = Rotated(disk)
    /\ UNCHANGED <<lsn, segments, shard_lock, th, snapshots, open_snapshots, hist, shard,
                   mgr, locks, fsync, range_out, apiVars>>

\* append_entry, the end, with the effect of flush::start on the folder
DiskAppendFlush(t) ==
    /\ disk.phase = "up"
    /\ th[t].pc = "flush"
    /\ flush_start
    /\ disk' = IF active_memtable # {} THEN Rotated(disk) ELSE disk
    /\ th' = [th EXCEPT ![t] = Finished(th[t])]
    /\ hist' = MarkDone(th[t].seqno)
    /\ UNCHANGED <<lsn, segments, shard_lock, snapshots, open_snapshots, shard,
                   mgr, locks, fsync, range_out, apiVars>>

\* Tree::flush: journal.flush()?; Ok(()): what the active journal holds is
\* durable; the writes that had returned by then are the promised ones
TreeFlush ==
    /\ disk.phase = "up"
    /\ disk.crashes = 0
    /\ shard_lock = "free"
    /\ disk' = [disk EXCEPT !.synced = Len(journals[Len(journals)]),
                            !.promised = @ \cup {hist[i].seqno : i \in
                                                    {j \in 1..Len(hist) : hist[j].done}}]
    /\ disk'.promised # disk.promised
    /\ UNCHANGED <<treeVars, shard, mgr, locks, fsync, range_out, apiVars>>

\* the flush worker of a sealed memtable, step by step: the segment writer runs
\* over the oldest sealed memtable; the segment carries the id of its journal
WorkerWrite ==
    /\ disk.phase = "up"
    /\ disk.worker = "idle"
    /\ immutable_memtables # <<>>
    /\ disk' = [disk EXCEPT !.worker = "written",
                            !.dirs = @ \cup {SegmentDir(disk.jids[1], FALSE, {})}]
    /\ UNCHANGED <<treeVars, shard, mgr, locks, fsync, range_out, apiVars>>

\* the segment is finalized: its metadata is written and synced
WorkerFinish ==
    /\ disk.phase = "up"
    /\ disk.worker = "written"
    /\ disk' = [disk EXCEPT !.worker = "finished",
                            !.dirs = (@ \ {DirOf(disk, disk.jids[1])})
                                \cup {SegmentDir(disk.jids[1], TRUE,
                                                 Head(immutable_memtables))}]
    /\ UNCHANGED <<treeVars, shard, mgr, locks, fsync, range_out, apiVars>>

\* the segment is appended to L0 of the manifest
WorkerList ==
    /\ disk.phase = "up"
    /\ disk.worker = "finished"
    /\ Len(segments) < MaxSegments
    /\ disk' = [disk EXCEPT !.worker = "listed", !.manifest = <<disk.jids[1]>> \o @]
    /\ segments' = <<Head(immutable_memtables)>> \o segments
    /\ UNCHANGED <<lsn, active_memtable, immutable_memtables, journals,
                   approx_active_memtable_size, shard_lock, th, snapshots, open_snapshots,
                   hist, shard, mgr, locks, fsync, range_out, apiVars>>

\* the sealed memtable is removed from the map
WorkerEvict ==
    /\ disk.phase = "up"
    /\ disk.worker = "listed"
    /\ disk' = [disk EXCEPT !.worker = "evicted"]
    /\ immutable_memtables' = Tail(immutable_memtables)
    /\ UNCHANGED <<lsn, active_memtable, segments, journals,
                   approx_active_memtable_size, shard_lock, th, snapshots, open_snapshots,
                   hist, shard, mgr, locks, fsync, range_out, apiVars>>

\* the journal of the memtable is deleted
WorkerDelete ==
    /\ disk.phase = "up"
    /\ disk.worker = "evicted"
    /\ disk' = [disk EXCEPT !.worker = "idle", !.jids = Tail(@),
                            !.marked = @ \ {disk.jids[1]}]
    /\ journals' = Tail(journals)
    /\ UNCHANGED <<lsn, active_memtable, immutable_memtables, segments,
                   approx_active_memtable_size, shard_lock, th, snapshots, open_snapshots,
                   hist, shard, mgr, locks, fsync, range_out, apiVars>>

\* a major compaction, step by step: the merged segment is written and synced
CompactWrite ==
    /\ disk.phase = "up"
    /\ disk.compactor = "idle"
    /\ Len(segments) > 1
    /\ Compacted # {}
    /\ disk' = [disk EXCEPT !.compactor = "written", !.output = disk.next_id,
                            !.inputs = ManifestIds(disk),
                            !.next_id = @ + 1,
                            !.dirs = @ \cup {SegmentDir(disk.next_id, TRUE, Compacted)}]
    /\ UNCHANGED <<treeVars, shard, mgr, locks, fsync, range_out, apiVars>>

\* one rewrite of the manifest adds the output and removes the inputs
CompactCommit ==
    /\ disk.phase = "up"
    /\ disk.compactor = "written"
    /\ LET Kept(id) == id \notin disk.inputs
       IN disk' = [disk EXCEPT !.compactor = "committed",
                               !.manifest = SelectSeq(@, Kept) \o <<disk.output>>]
    /\ segments' = LevelsOf(disk')
    /\ UNCHANGED <<lsn, active_memtable, immutable_memtables, journals,
                   approx_active_memtable_size, shard_lock, th, snapshots, open_snapshots,
                   hist, shard, mgr, locks, fsync, range_out, apiVars>>

\* the folders of the inputs are deleted
CompactDelete ==
    /\ disk.phase = "up"
    /\ disk.compactor = "committed"
    /\ disk' = [disk EXCEPT !.compactor = "idle", !.output = 0, !.inputs = {},
                            !.dirs = {x \in @ : x.id \notin disk.inputs}]
    /\ UNCHANGED <<treeVars, shard, mgr, locks, fsync, range_out, apiVars>>

\* the process dies: memory is gone; the active journal of a running tree keeps
\* what was synced and any part of what was not
CrashTree ==
    /\ disk.phase \in {"up", "journals", "segments"}
    /\ disk.crashes < MaxCrashes
    /\ \E n \in 0..MaxDiskWrites :
          /\ IF disk.phase = "up"
             THEN /\ disk.synced <= n
                  /\ n <= Len(journals[Len(journals)])
                  /\ journals' = [journals EXCEPT ![Len(journals)] = SubSeq(@, 1, n)]
             ELSE /\ n = 0
                  /\ UNCHANGED journals
          /\ disk' = [disk EXCEPT !.phase = "down", !.crashes = @ + 1, !.synced = n,
                                  !.worker = "idle", !.compactor = "idle", !.output = 0,
                                  !.inputs = {}, !.todo = {}, !.active = 0, !.orphan = 0,
                                  !.orphan_pc = "idle", !.recovered = {},
                                  !.deleted = {},
                                  !.interrupted = @ \cup ({disk.orphan_pc} \ {"idle"})]
    /\ lsn' = 0
    /\ active_memtable' = {}
    /\ immutable_memtables' = <<>>
    /\ segments' = <<>>
    /\ approx_active_memtable_size' = 0
    /\ shard_lock' = "free"
    /\ th' = [t \in Threads |-> IdleThread]
    /\ UNCHANGED <<snapshots, open_snapshots, hist, shard, mgr, locks, fsync, range_out, apiVars>>

JournalIds(d) == {d.jids[i] : i \in 1..Len(d.jids)}

JournalIndex(d, id) == CHOOSE i \in 1..Len(d.jids) : d.jids[i] = id

\* the highest seqno of a set of records
MaxSeqnoOf(records) == Max({r.seqno : r \in records})

\* Levels::sort_levels: the segment with the highest seqno first
RECURSIVE sort_levels(_)
sort_levels(ls) ==
    IF ls = <<>> THEN <<>>
    ELSE LET top == Max({MaxSeqnoOf(ls[j]) : j \in 1..Len(ls)})
             i == Min({j \in 1..Len(ls) : MaxSeqnoOf(ls[j]) = top})
         IN <<ls[i]>> \o sort_levels(RemoveAt(ls, i))

\* Tree::open of an existing folder: Tree::recover, recover_active_journal begins
OpenTree ==
    /\ disk.phase = "down"
    /\ disk' = [disk EXCEPT !.phase = "journals", !.todo = JournalIds(disk),
                            !.missing = ~(ManifestIds(disk) \subseteq DirIds(disk))]
    /\ UNCHANGED <<treeVars, shard, mgr, locks, fsync, range_out, apiVars>>

\* levels.contains_id(&segment_id)
contains_id(d, id) == id \in ManifestIds(d)

\* recover_active_journal, one folder of the journals folder: an empty journal is
\* deleted; a journal without .flush below the size threshold becomes the active
\* one (a second one trips the assertion); every other journal is an orphan
RecoverJournal(id) ==
    /\ disk.phase = "journals"
    /\ disk.orphan = 0
    /\ id \in disk.todo
    /\ LET i == JournalIndex(disk, id)
           journal_size == JournalSize(journals[i])
       IN CASE journal_size = 0 ->
                 /\ journals' = RemoveAt(journals, i)
                 /\ disk' = [disk EXCEPT !.jids = RemoveAt(@, i), !.todo = @ \ {id},
                                         !.marked = @ \ {id}]
            [] journal_size # 0 /\ id \notin disk.marked /\ disk.active # 0 ->
                 /\ disk' = [disk EXCEPT !.phase = "panic"]
                 /\ UNCHANGED journals
            [] journal_size # 0 /\ id \notin disk.marked /\ disk.active = 0
                   /\ journal_size < max_memtable_size ->
                 /\ disk' = [disk EXCEPT !.active = id, !.todo = @ \ {id}]
                 /\ UNCHANGED journals
            [] OTHER ->
                 /\ disk' = [disk EXCEPT !.orphan = id, !.todo = @ \ {id},
                                         !.orphan_pc = IF contains_id(disk, id)
                                                       THEN "delete" ELSE "write"]
                 /\ UNCHANGED journals
    /\ UNCHANGED <<lsn, active_memtable, immutable_memtables, segments,
                   approx_active_memtable_size, shard_lock, th, snapshots, open_snapshots,
                   hist, shard, mgr, locks, fsync, range_out, apiVars>>

\* the orphan's segment folder: a half-written one is removed, the writer runs
\* over the recovered memtable and finishes
OrphanWrite ==
    /\ disk.phase = "journals"
    /\ disk.orphan_pc = "write"
    /\ disk' = [disk EXCEPT !.orphan_pc = "metadata",
                            !.dirs = {x \in @ : x.id # disk.orphan}
                                \cup {SegmentDir(disk.orphan, FALSE, {})}]
    /\ UNCHANGED <<treeVars, shard, mgr, locks, fsync, range_out, apiVars>>

\* metadata.write_to_file()
OrphanMetadata ==
    /\ disk.phase = "journals"
    /\ disk.orphan_pc = "metadata"
    /\ disk' = [disk EXCEPT !.orphan_pc = "list",
                            !.dirs = {x \in @ : x.id # disk.orphan}
                                \cup {SegmentDir(disk.orphan, TRUE,
                                          Replayed(journals[JournalIndex(disk,
                                                                         disk.orphan)]))}]
    /\ UNCHANGED <<treeVars, shard, mgr, locks, fsync, range_out, apiVars>>

\* levels.add_id(metadata.id); levels.write_to_disk()
OrphanList ==
    /\ disk.phase = "journals"
    /\ disk.orphan_pc = "list"
    /\ disk' = [disk EXCEPT !.orphan_pc = "delete", !.manifest = <<disk.orphan>> \o @]
    /\ UNCHANGED <<treeVars, shard, mgr, locks, fsync, range_out, apiVars>>

\* std::fs::remove_dir_all(journal_path)
OrphanDelete ==
    /\ disk.phase = "journals"
    /\ disk.orphan_pc = "delete"
    /\ LET i == JournalIndex(disk, disk.orphan)
       IN /\ journals' = RemoveAt(journals, i)
          /\ disk' = [disk EXCEPT !.orphan_pc = "idle", !.orphan = 0,
                                  !.jids = RemoveAt(@, i), !.marked = @ \ {disk.orphan}]
    /\ UNCHANGED <<lsn, active_memtable, immutable_memtables, segments,
                   approx_active_memtable_size, shard_lock, th, snapshots, open_snapshots,
                   hist, shard, mgr, locks, fsync, range_out, apiVars>>

\* Tree::recover after recover_active_journal: without an active journal a new
\* one is created; recover_segments reads the ids of the manifest
RecoverSegmentsBegin ==
    /\ disk.phase = "journals"
    /\ disk.todo = {} /\ disk.orphan = 0
    /\ IF disk.active = 0
       THEN /\ journals' = Append(journals, <<>>)
            /\ disk' = [disk EXCEPT !.phase = "segments", !.todo = DirIds(disk),
                                    !.recovered = {}, !.active = disk.next_id,
                                    !.jids = Append(@, disk.next_id),
                                    !.next_id = @ + 1]
       ELSE /\ UNCHANGED journals
            /\ disk' = [disk EXCEPT !.phase = "segments", !.todo = DirIds(disk),
                                    !.recovered = {}]
    /\ UNCHANGED <<lsn, active_memtable, immutable_memtables, segments,
                   approx_active_memtable_size, shard_lock, th, snapshots, open_snapshots,
                   hist, shard, mgr, locks, fsync, range_out, apiVars>>

\* segment_ids_to_recover.contains(&segment_id), ignored
contains_any(ids, id) == TRUE

\* segment_ids_to_recover.contains(&segment_id)
contains(ids, id) == id \in ids

\* recover_segments, one folder of the segments folder: a listed segment is
\* recovered (Segment::recover fails without the metadata file), any other folder
\* is deleted
RecoverSegmentDir(id) ==
    /\ disk.phase = "segments"
    /\ id \in disk.todo
    /\ disk' = IF contains(ManifestIds(disk), id)
               THEN IF DirOf(disk, id).complete
                    THEN [disk EXCEPT !.todo = @ \ {id}, !.recovered = @ \cup {id}]
                    ELSE [disk EXCEPT !.phase = "err"]
               ELSE [disk EXCEPT !.todo = @ \ {id}, !.deleted = @ \cup {id},
                                 !.dirs = {x \in @ : x.id # id}]
    /\ UNCHANGED <<treeVars, shard, mgr, locks, fsync, range_out, apiVars>>

\* segments.len() < segment_ids_to_recover.len(), ignored
too_few_never(recovered, ids) == FALSE

\* segments.len() < segment_ids_to_recover.len()
too_few(recovered, ids) == Cardinality(recovered) < Cardinality(ids)

\* the levels built from the recovered segments: Levels::recover looks every
\* listed id up in the map of recovered segments
RecoveredLevels(d) ==
    LET Found(id) == id \in d.recovered
    IN [i \in 1..Len(SelectSeq(d.manifest, Found)) |->
           DirOf(d, SelectSeq(d.manifest, Found)[i]).records]

\* a seqno counter taken from the recovered memtable alone
recovered_lsn_of_memtable(memtable, levels) ==
    LET seqnos == {r.seqno + 1 : r \in memtable}
    IN IF seqnos = {} THEN 0 ELSE Max(seqnos)

\* Tree::recover, the seqno counter: one more than the highest seqno of the
\* recovered memtable (0 without an item), raised to one more than the highest
\* seqno of the segments
recovered_lsn(memtable, levels) ==
    LET seqnos == {r.seqno + 1 : r \in memtable}
                      \cup {MaxSeqnoOf(levels[i]) + 1 : i \in 1..Len(levels)}
    IN IF seqnos = {} THEN 0 ELSE Max(seqnos)

\* recover_segments returns (or panics) and Tree::recover builds the tree: the
\* memtable of the active journal, the seqno counter, the sorted levels
RecoverSegmentsEnd ==
    /\ disk.phase = "segments"
    /\ disk.todo = {}
    /\ IF too_few(disk.recovered, ManifestIds(disk))
       THEN /\ disk' = [disk EXCEPT !.phase = "panic"]
            /\ UNCHANGED <<lsn, active_memtable, segments, approx_active_memtable_size>>
       ELSE LET journal == journals[JournalIndex(disk, disk.active)]
                memtable == Replayed(journal)
                levels == sort_levels(RecoveredLevels(disk))
            IN /\ disk' = [disk EXCEPT !.phase = "up", !.synced = Len(journal),
                                       !.todo = {}]
               /\ active_memtable' = memtable
               /\ lsn' = recovered_lsn(memtable, levels)
               /\ segments' = levels
               /\ approx_active_memtable_size' = JournalSize(journal)
    /\ UNCHANGED <<immutable_memtables, journals, shard_lock, th, snapshots,
                   open_snapshots, hist, shard, mgr, locks, fsync, range_out, apiVars>>

(* --------------------------- flush manager -------------------------- *)

\* calls of the flush manager
MaxLruCalls == 7
\* flush tasks enqueued
MaxTasks == 3

LruPartitions == {"p1", "p2", "p3"}

\* a partition that was never registered, flushed or selected
Never == 0 - 1

\* no call of flush_least_recently_used_partition was made yet
NoVictim == [called |-> FALSE, result |-> "None", items |-> <<>>,
             touched |-> [p \in LruPartitions |-> Never]]

\* LruList::refresh with the partition put to the front of the list
refresh_to_front(items, partition) ==
    LET Other(x) == x # partition
    IN <<partition>> \o SelectSeq(items, Other)

\* LruList::refresh: items.retain(|x| x.name != partition.name); items.push(partition)
refresh(items, partition) ==
    LET Other(x) == x # partition
    IN Append(SelectSeq(items, Other), partition)

\* a get_least_recently_used that takes the front off the list for good
get_least_recently_used_pop(items) ==
    IF items = <<>>
    THEN [items |-> items, result |-> "None"]
    ELSE [items |-> Tail(items), result |-> Head(items)]

\* LruList::get_least_recently_used: the list after the call and the result
get_least_recently_used(items) ==
    IF items = <<>>
    THEN [items |-> items, result |-> "None"]
    ELSE [items |-> refresh(Tail(items), Head(items)), result |-> Head(items)]

\* the clock of the calls that flush, select or register a partition
Touch(m, partition) ==
    [m EXCEPT !.clock = @ + 1, !.touched[partition] = m.clock]

\* a partition enters the LRU list: lru_list.refresh(partition)
RegisterPartition(partition) ==
    /\ mgr.clock < MaxLruCalls
    /\ partition \notin {mgr.items[i] : i \in 1..Len(mgr.items)}
    /\ mgr' = [Touch(mgr, partition) EXCEPT !.items = refresh(mgr.items, partition),
                                            !.streak = <<>>]
    /\ UNCHANGED <<treeVars, shard, disk, locks, fsync, range_out, apiVars>>

\* FlushManager::flush_least_recently_used_partition
flush_least_recently_used_partition ==
    /\ mgr.clock < MaxLruCalls
    /\ LET got == get_least_recently_used(mgr.items)
           m == IF got.result = "None" THEN [mgr EXCEPT !.clock = @ + 1]
                ELSE Touch(mgr, got.result)
       IN mgr' = [m EXCEPT !.items = got.items,
                           !.last = [called |-> TRUE, result |-> got.result,
                                     items |-> mgr.items, touched |-> mgr.touched],
                           !.streak = Append(@, got.result)]
    /\ UNCHANGED <<treeVars, shard, disk, locks, fsync, range_out, apiVars>>

\* FlushManager::enqueue_task
enqueue_task(partition_name) ==
    /\ mgr.next_task <= MaxTasks
    /\ mgr' = [mgr EXCEPT !.queues[partition_name] = Append(@, mgr.next_task),
                          !.next_task = @ + 1]
    /\ UNCHANGED <<treeVars, shard, disk, locks, fsync, range_out, apiVars>>

\* a dequeue_tasks that takes the newest tasks off the queue
dequeue_newest_tasks(partition_name, cnt) ==
    /\ mgr.clock < MaxLruCalls
    /\ cnt <= Len(mgr.queues[partition_name])
    /\ mgr' = [(IF mgr.queues[partition_name] # <<>>
                THEN Touch(mgr, partition_name)
                ELSE [mgr EXCEPT !.clock = @ + 1]) EXCEPT
                   !.items = IF mgr.queues[partition_name] # <<>>
                             THEN refresh(mgr.items, partition_name)
                             ELSE mgr.items,
                   !.queues[partition_name] = SubSeq(@, 1, Len(@) - cnt),
                   !.streak = <<>>]
    /\ UNCHANGED <<treeVars, shard, disk, locks, fsync, range_out, apiVars>>

\* FlushManager::dequeue_tasks of a flush that wrote cnt tasks of the partition:
\* the partition of the first task is refreshed, then cnt tasks leave the queue
dequeue_tasks(partition_name, cnt) ==
    /\ mgr.clock < MaxLruCalls
    /\ cnt <= Len(mgr.queues[partition_name])
    /\ mgr' = [(IF mgr.queues[partition_name] # <<>>
                THEN Touch(mgr, partition_name)
                ELSE [mgr EXCEPT !.clock = @ + 1]) EXCEPT
                   !.items = IF mgr.queues[partition_name] # <<>>
                             THEN refresh(mgr.items, partition_name)
                             ELSE mgr.items,
                   !.queues[partition_name] = SubSeq(@, cnt + 1, Len(@)),
                   !.streak = <<>>]
    /\ UNCHANGED <<treeVars, shard, disk, locks, fsync, range_out, apiVars>>

(* ---------------------------- flush workers ------------------------- *)

\* the pool of flush workers
Workers == {"w1", "w2"}

\* the limits collect_tasks is called with
Limits == {1, 2}

NoTasks == [p \in LruPartitions |-> <<>>]

\* a worker that waits for the semaphore
WorkerAtRest == [pc |-> "idle", collected |-> NoTasks]

\* the orders in which the iteration over the HashMap of queues can visit them
QueueOrders ==
    {o \in [1..Cardinality(LruPartitions) -> LruPartitions] :
        \A i, j \in 1..Cardinality(LruPartitions) : o[i] = o[j] => i = j}

\* a collection that takes the newest tasks of each queue
RECURSIVE CollectedNewest(_, _, _, _, _)
CollectedNewest(queues, order, n, cnt, limit) ==
    IF n > Len(order) THEN NoTasks
    ELSE LET queue == queues[order[n]]
             take == IF Len(queue) < limit - cnt THEN Len(queue) ELSE limit - cnt
         IN [CollectedNewest(queues, order, n + 1, cnt + take, limit)
                EXCEPT ![order[n]] = SubSeq(queue, Len(queue) - take + 1, Len(queue))]

\* the loop 'outer of collect_tasks over the queues from the n-th of the order
\* on, with cnt tasks collected so far: the tasks are cloned, the queues keep them
RECURSIVE Collected(_, _, _, _, _)
Collected(queues, order, n, cnt, limit) ==
    IF n > Len(order) THEN NoTasks
    ELSE LET queue == queues[order[n]]
             take == IF Len(queue) < limit - cnt THEN Len(queue) ELSE limit - cnt
         IN [Collected(queues, order, n + 1, cnt + take, limit)
                EXCEPT ![order[n]] = SubSeq(queue, 1, take)]

\* FlushManager::collect_tasks(limit), called by a worker
collect_tasks(w, limit, order) ==
    /\ mgr.workers[w].pc = "idle"
    /\ \E p \in LruPartitions : mgr.queues[p] # <<>>
    /\ mgr' = [mgr EXCEPT !.workers[w] =
                   [pc |-> "flushing",
                    collected |-> Collected(mgr.queues, order, 1, 0, limit)]]
    /\ UNCHANGED <<treeVars, shard, disk, locks, fsync, range_out, apiVars>>

\* the tasks a worker holds
TasksOf(collected) ==
    UNION {{collected[p][i] : i \in 1..Len(collected[p])} : p \in LruPartitions}

\* the worker writes a segment for every task it collected
FlushCollected(w) ==
    /\ mgr.workers[w].pc = "flushing"
    /\ mgr' = [mgr EXCEPT !.workers[w].pc = "flushed",
                          !.flushed_by = [id \in 1..MaxTasks |->
                              IF id \in TasksOf(mgr.workers[w].collected)
                              THEN @[id] \cup {w} ELSE @[id]]]
    /\ UNCHANGED <<treeVars, shard, disk, locks, fsync, range_out, apiVars>>

\* queue.remove(0) panics on an empty queue
Panics(queues, collected) ==
    \E p \in LruPartitions : Len(collected[p]) > Len(queues[p])

\* the partitions a worker calls dequeue_tasks for
Partitions_of(collected) == {p \in LruPartitions : collected[p] # <<>>}

\* FlushManager::dequeue_tasks(partition_name, cnt) for every partition of the
\* collected tasks, cnt the number collected of it: the partition of the first
\* task is refreshed, then queue.remove(0) runs cnt times, or until it panics
DequeueCollected(w) ==
    /\ mgr.workers[w].pc = "flushed"
    /\ LET collected == mgr.workers[w].collected
           gone(p) == IF Len(collected[p]) < Len(mgr.queues[p])
                      THEN Len(collected[p]) ELSE Len(mgr.queues[p])
           RECURSIVE Refreshed(_, _)
           Refreshed(items, ps) ==
               IF ps = {} THEN items
               ELSE LET p == CHOOSE q \in ps : TRUE
                    IN Refreshed(IF mgr.queues[p] # <<>> THEN refresh(items, p) ELSE items,
                                 ps \ {p})
       IN mgr' = [mgr EXCEPT
                     !.workers[w] = [pc |-> IF Panics(mgr.queues, collected)
                                            THEN "panicked" ELSE "idle",
                                     collected |-> NoTasks],
                     !.items = Refreshed(@, Partitions_of(collected)),
                     !.queues = [p \in LruPartitions |->
                                    SubSeq(@[p], gone(p) + 1, Len(@[p]))],
                     !.removed = @ \cup UNION {{mgr.queues[p][i] : i \in 1..gone(p)} :
                                                  p \in LruPartitions}]
    /\ UNCHANGED <<treeVars, shard, disk, locks, fsync, range_out, apiVars>>

(* -------------------------------- locks ----------------------------- *)

\* the documented order of the locks of a tree
LockRank(lock) ==
    CASE lock = "shard" -> 1
      [] lock = "active_memtable" -> 2
      [] lock = "immutable_memtables" -> 3
      [] lock = "levels" -> 4

Acquire(lock, mode) == [op |-> "acquire", lock |-> lock, mode |-> mode]

Release(lock) == [op |-> "release", lock |-> lock, mode |-> "none"]

\* get_internal_entry: each lock is dropped before the next is taken; the levels
\* lock is held to the end of the function
GetLocks ==
    <<Acquire("active_memtable", "read"), Release("active_memtable"),
      Acquire("immutable_memtables", "read"), Release("immutable_memtables"),
      Acquire("levels", "read"), Release("levels")>>

\* append_entry under the shard lock its caller took: drop(shard), then the
\* active memtable's read lock
AppendLocks ==
    <<Release("shard"), Acquire("active_memtable", "read"), Release("active_memtable")>>

\* create_range and create_prefix: the levels read lock is taken first and lives
\* to the end of the function, the MemTableGuard takes the read locks of the
\* active and of the immutable memtables and lives as long as the Range
RangeLocks ==
    <<Acquire("levels", "read"), Acquire("active_memtable", "read"),
      Acquire("immutable_memtables", "read"), Release("levels"),
      Release("immutable_memtables"), Release("active_memtable")>>

\* the locks a call of the tree takes and drops, in the order of its code
LockPath(path) ==
    CASE path = "get" -> GetLocks
      [] path = "insert" -> <<Acquire("shard", "write")>> \o AppendLocks
      [] path = "compare_and_swap" -> <<Acquire("shard", "write")>> \o GetLocks \o AppendLocks
      [] path = "batch_commit" -> <<Acquire("shard", "write"), Release("shard")>>
      [] path = "create_range" -> RangeLocks
      [] path = "create_prefix" -> RangeLocks
      [] path = "do_major_compaction" -> <<Acquire("levels", "write"), Release("levels")>>

LockPaths ==
    {"get", "insert", "compare_and_swap", "batch_commit", "create_range", "create_prefix",
     "do_major_compaction"}

\* a lock can be taken: a writer needs it free, a reader needs it free of writers
Available(t, lock, mode) ==
    \A o \in Threads \ {t} :
        \A i \in 1..Len(locks[o].held) :
            locks[o].held[i].lock = lock =>
                mode = "read" /\ locks[o].held[i].mode = "read"

\* a thread calls into the tree
EnterPath(t, path) ==
    /\ locks[t].path = "none"
    /\ locks' = [locks EXCEPT ![t] = [path |-> path, pc |-> 1, held |-> <<>>]]
    /\ UNCHANGED <<treeVars, shard, disk, mgr, fsync, range_out, apiVars>>

\* the next lock operation of the call; the call returns after its last one
LockStep(t) ==
    /\ locks[t].path # "none"
    /\ LET me == locks[t]
           ops == LockPath(me.path)
           o == ops[me.pc]
           NotIt(h) == h.lock # o.lock
           held == IF o.op = "acquire"
                   THEN Append(me.held, [lock |-> o.lock, mode |-> o.mode])
                   ELSE SelectSeq(me.held, NotIt)
       IN /\ o.op = "acquire" => Available(t, o.lock, o.mode)
          /\ locks' = [locks EXCEPT ![t] = IF me.pc = Len(ops)
                                           THEN [path |-> "none", pc |-> 0, held |-> <<>>]
                                           ELSE [me EXCEPT !.pc = @ + 1, !.held = held]]
    /\ UNCHANGED <<treeVars, shard, disk, mgr, fsync, range_out, apiVars>>

(* ------------------------------ shutdown ---------------------------- *)

\* journal flushes of the fsync thread that are counted after the drop of the tree
MaxLateFlushes == 2

\* Tree::open with fsync_ms set: start_fsync_thread spawns the thread, which
\* goes to sleep
start_fsync_thread ==
    /\ fsync.pc = "off"
    /\ ~fsync.dropped
    /\ fsync' = [fsync EXCEPT !.pc = "sleep"]
    /\ UNCHANGED <<treeVars, shard, disk, mgr, locks, range_out, apiVars>>

\* std::thread::sleep(ms) returns
FsyncWake ==
    /\ fsync.pc = "sleep"
    /\ fsync' = [fsync EXCEPT !.pc = "check"]
    /\ UNCHANGED <<treeVars, shard, disk, mgr, locks, range_out, apiVars>>

\* if stop_signal.is_stopped() { return; }
FsyncCheck ==
    /\ fsync.pc = "check"
    /\ fsync' = [fsync EXCEPT !.pc = IF fsync.stopped THEN "exited" ELSE "flush"]
    /\ UNCHANGED <<treeVars, shard, disk, mgr, locks, range_out, apiVars>>

\* journal.flush() (a failure is logged), then the loop starts over
FsyncFlush ==
    /\ fsync.pc = "flush"
    /\ fsync' = [fsync EXCEPT !.pc = "sleep",
                              !.synced = Len(journals[Len(journals)]),
                              !.late = IF fsync.dropped /\ @ < MaxLateFlushes
                                       THEN @ + 1 ELSE @]
    /\ UNCHANGED <<treeVars, shard, disk, mgr, locks, range_out, apiVars>>

\* the owner drops the tree, impl Drop for TreeInner: the commit log is flushed
\* (a failure is logged); nothing else is done
DropTree ==
    /\ ~fsync.dropped
    /\ \A t \in Threads : th[t].pc = "idle"
    /\ fsync' = [fsync EXCEPT !.dropped = TRUE, !.synced = Len(journals[Len(journals)])]
    /\ UNCHANGED <<treeVars, shard, disk, mgr, locks, range_out, apiVars>>

(* ------------------------------- config ----------------------------- *)

\* Configs built one after the other
MaxConfigs == 2

MiB == 1024 * 1024

\* the values of a u32 the setters are called with
ByteCounts == {0, 1, 16 * MiB, 24 * MiB - 1, 24 * MiB, 64 * MiB, 128 * MiB, 2147483647}

\* Option<u16>
NoneMs == [some |-> FALSE, ms |-> 0]

SomeMs(ms) == [some |-> TRUE, ms |-> ms]

\* the arguments Config::fsync_ms is called with
FsyncArgs == {NoneMs, SomeMs(0), SomeMs(1000)}

\* impl Default for Config, which Config::new(path) completes
DefaultConfig ==
    [max_write_buffer_size_in_bytes |-> 64 * MiB,
     max_journaling_size_in_bytes |-> 128 * MiB,
     fsync_ms |-> SomeMs(1000),
     state |-> "building",
     built |-> 1]

\* a setter that takes any value
max_journaling_size_unchecked(c, bytes) ==
    [c EXCEPT !.max_journaling_size_in_bytes = bytes]

\* Config::max_journaling_size: assert!(bytes >= 24 MiB), then the field is set
max_journaling_size(c, bytes) ==
    IF bytes >= 24 * MiB
    THEN [c EXCEPT !.max_journaling_size_in_bytes = bytes]
    ELSE [c EXCEPT !.state = "panicked"]

\* Config::max_write_buffer_size
max_write_buffer_size(c, bytes) ==
    [c EXCEPT !.max_write_buffer_size_in_bytes = bytes]

\* Config::fsync_ms: assert!(ms > 0) for Some(ms), then the field is set
fsync_ms(c, ms) ==
    IF ms.some /\ ~(ms.ms > 0)
    THEN [c EXCEPT !.state = "panicked"]
    ELSE [c EXCEPT !.fsync_ms = ms]

\* a builder call on the Config
SetMaxJournalingSize(bytes) ==
    /\ config.state = "building"
    /\ config' = max_journaling_size(config, bytes)
    /\ UNCHANGED <<treeVars, shard, disk, mgr, locks, fsync, range_out, folder, scan>>

SetMaxWriteBufferSize(bytes) ==
    /\ config.state = "building"
    /\ config' = max_write_buffer_size(config, bytes)
    /\ UNCHANGED <<treeVars, shard, disk, mgr, locks, fsync, range_out, folder, scan>>

SetFsyncMs(ms) ==
    /\ config.state = "building"
    /\ config' = fsync_ms(config, ms)
    /\ UNCHANGED <<treeVars, shard, disk, mgr, locks, fsync, range_out, folder, scan>>

\* Config::open: the Config is handed to Keyspace::open
ConfigOpen ==
    /\ config.state = "building"
    /\ config' = [config EXCEPT !.state = "opened"]
    /\ UNCHANGED <<treeVars, shard, disk, mgr, locks, fsync, range_out, folder, scan>>

\* Config::new(path) for the next keyspace
ConfigNew ==
    /\ config.state # "building"
    /\ config.built < MaxConfigs
    /\ config' = [DefaultConfig EXCEPT !.built = config.built + 1]
    /\ UNCHANGED <<treeVars, shard, disk, mgr, locks, fsync, range_out, folder, scan>>

(* ------------------------- creation of a tree ----------------------- *)

\* calls of Tree::open on one folder
MaxOpens == 3

\* what Tree::create_new puts on disk: the folder of the tree, the segments and
\* journals folders, the levels manifest, the first journal, the .lsm marker
Entries == {"root", "segments", "journals", "levels", "journal", "marker"}

\* an entry is absent, in the page cache only ("cached": a power failure may take
\* it), or on disk ("synced")
EntryStates == {"absent", "cached", "synced"}

NoEntries == [e \in Entries |-> "absent"]

Exists(fs, e) == fs[e] # "absent"

\* create_dir_all, File::create, Journal::create_new: the entry is made, an
\* existing one is left as it is
Made(fs, e) == IF Exists(fs, e) THEN fs ELSE [fs EXCEPT ![e] = "cached"]

\* File::open(dir)?.sync_all(): the entries of the directory reach the disk
Synced(fs, es) ==
    [e \in Entries |-> IF e \in es /\ fs[e] = "cached" THEN "synced" ELSE fs[e]]

\* a creation that installs the marker before the rest
create_new_marker_first ==
    <<"root", "segments", "journals", "assert", "marker", "sync_marker", "levels",
      "journal", "fsync_root", "fsync_journals">>

\* the statements of Tree::create_new that touch the disk, in the order of the code
create_new_steps ==
    <<"root", "segments", "journals", "assert", "levels", "journal", "fsync_root",
      "fsync_journals", "marker", "sync_marker">>

\* the disk after one statement of create_new; Levels::create_new writes the
\* manifest durably (temp file, fsync, rename, fsync of the directory);
\* file.sync_all() on the marker syncs the file, not its directory entry
Stepped(fs, step) ==
    CASE step \in {"root", "segments", "journals", "journal", "marker"} -> Made(fs, step)
      [] step = "levels" -> [fs EXCEPT !["levels"] = "synced"]
      [] step = "fsync_root" -> Synced(fs, {"segments", "journals", "levels"})
      [] step = "fsync_journals" -> Synced(fs, {"journal"})
      [] OTHER -> fs

\* the disk after a crash that took the entries of lost: what is inside a lost
\* directory is lost with it, what is left is on disk
Survivors(fs, lost) ==
    [e \in Entries |->
        IF \/ e \in lost \/ "root" \in lost
           \/ (e = "journal" /\ "journals" \in lost)
           \/ fs[e] = "absent"
        THEN "absent" ELSE "synced"]

\* Tree::open: config.path.join(LSM_MARKER).exists() decides between recover and
\* create_new
TreeOpen ==
    /\ folder.phase = "closed"
    /\ Len(folder.paths) < MaxOpens
    /\ LET found == Exists(folder.fs, "marker")
       IN folder' = [folder EXCEPT
                        !.phase = IF found THEN "recovering" ELSE "creating",
                        !.step = 1,
                        !.saw_marker = Append(@, found),
                        !.paths = Append(@, IF found THEN "recover" ELSE "create"),
                        !.result = "none"]
    /\ UNCHANGED <<treeVars, shard, disk, mgr, locks, fsync, range_out, config, scan>>

\* one statement of Tree::create_new; the assert panics when the marker exists,
\* the last statement is followed by Ok(tree)
CreateStep ==
    /\ folder.phase = "creating"
    /\ LET step == create_new_steps[folder.step]
           last == folder.step = Len(create_new_steps)
       IN folder' =
              IF step = "assert" /\ Exists(folder.fs, "marker")
              THEN [folder EXCEPT !.phase = "failed", !.result = "Panic"]
              ELSE [folder EXCEPT !.fs = Stepped(@, step),
                                  !.step = IF last THEN @ ELSE @ + 1,
                                  !.phase = IF last THEN "open" ELSE @,
                                  !.result = IF last THEN "Ok" ELSE @]
    /\ UNCHANGED <<treeVars, shard, disk, mgr, locks, fsync, range_out, config, scan>>

\* Tree::recover reads the levels manifest, the journals folder and the segments
\* folder, and creates a journal when it finds no active one
TreeRecover ==
    /\ folder.phase = "recovering"
    /\ folder' =
           IF \A e \in {"root", "segments", "journals", "levels"} : Exists(folder.fs, e)
           THEN [folder EXCEPT !.phase = "open", !.result = "Ok",
                               !.fs = Made(@, "journal")]
           ELSE [folder EXCEPT !.phase = "failed", !.result = "Err"]
    /\ UNCHANGED <<treeVars, shard, disk, mgr, locks, fsync, range_out, config, scan>>

\* the machine goes down during open or later: the entries of lost, none of them
\* synced, are gone
FolderCrash(lost) ==
    /\ folder.phase \in {"creating", "recovering", "open"}
    /\ folder.crashes < MaxCrashes
    /\ \A e \in lost : folder.fs[e] = "cached"
    /\ folder' = [folder EXCEPT !.phase = "closed", !.crashes = @ + 1,
                                !.fs = Survivors(@, lost),
                                !.crashed_at = Append(@, IF folder.phase = "creating"
                                                         THEN folder.step ELSE 0)]
    /\ UNCHANGED <<treeVars, shard, disk, mgr, locks, fsync, range_out, config, scan>>

(* ------------------------------ Tree::len --------------------------- *)

\* items the iterator of a scan yields
MaxScanItems == 5

\* what the iterator yields for one item: Ok(item) or Err(e)
ItemResults == {"Ok", "Err"}

Scans == SeqsUpTo(ItemResults, MaxScanItems)

\* crate::Result<usize>
OkCount(n) == [tag |-> "Ok", count |-> n]

ErrResult == [tag |-> "Err", count |-> 0]

NoResult == [tag |-> "none", count |-> 0]

\* Tree::len: Ok(self.iter()?.into_iter().filter(Result::is_ok).count())
len(iter_fails, items) ==
    IF iter_fails THEN ErrResult
    ELSE OkCount(Cardinality({i \in 1..Len(items) : items[i] = "Ok"}))

\* a caller scans the tree with len()
CallLen ==
    /\ scan.ret = NoResult
    /\ scan' = [scan EXCEPT !.ret = len(scan.iter_fails, scan.items)]
    /\ UNCHANGED <<treeVars, shard, disk, mgr, locks, fsync, range_out, config, folder>>

\* the caller takes the result; the next scan meets other outcomes of the reads
NextScan(iter_fails, items) ==
    /\ scan.ret # NoResult
    /\ scan' = [iter_fails |-> iter_fails, items |-> items, ret |-> NoResult]
    /\ UNCHANGED <<treeVars, shard, disk, mgr, locks, fsync, range_out, config, folder>>

(* ------------------------------ at rest ----------------------------- *)

\* the folder of a tree that Tree::create_new made: one empty journal, no segment,
\* an empty manifest; no flush, compaction or recovery is under way
DiskAtRest ==
    [phase |-> "off", crashes |-> 0, next_id |-> 2, jids |-> <<1>>, synced |-> 0,
     marked |-> {}, manifest |-> <<>>, dirs |-> {}, worker |-> "idle",
     compactor |-> "idle", output |-> 0, inputs |-> {}, todo |-> {}, active |-> 0,
     orphan |-> 0, orphan_pc |-> "idle", recovered |-> {}, deleted |-> {},
     missing |-> FALSE, promised |-> {}, interrupted |-> {}]

\* FlushManager::default(): no queue, an empty LRU list; nothing was called yet
MgrAtRest ==
    [items |-> <<>>, queues |-> [p \in LruPartitions |-> <<>>], next_task |-> 1,
     clock |-> 0, touched |-> [p \in LruPartitions |-> Never],
     last |-> NoVictim, streak |-> <<>>,
     workers |-> [w \in Workers |-> WorkerAtRest], flushed_by |-> [id \in 1..MaxTasks |-> {}],
     removed |-> {}]

\* no code path runs and no lock is held
LocksAtRest == [t \in Threads |-> [path |-> "none", pc |-> 0, held |-> <<>>]]

\* the tree is owned, no fsync thread was started, the stop signal is down
FsyncAtRest == [pc |-> "off", stopped |-> FALSE, dropped |-> FALSE, synced |-> 0, late |-> 0]

\* no Range was handed out
RangeAtRest ==
    [made |-> FALSE, kind |-> "none", bounds |-> BoundsOf(Unbounded, Unbounded),
     prefix |-> <<>>, seqno |-> NoSeqno, items |-> <<>>]

\* Config::new was called and nothing else
ConfigAtRest == DefaultConfig

\* an empty place where no tree was opened yet
FolderAtRest ==
    [phase |-> "closed", step |-> 1, fs |-> NoEntries, crashes |-> 0, saw_marker |-> <<>>,
     paths |-> <<>>, result |-> "none", crashed_at |-> <<>>]

\* no scan was asked for
ScanAtRest == [iter_fails |-> FALSE, items |-> <<>>, ret |-> NoResult]

ApiAtRest ==
    /\ config = ConfigAtRest
    /\ folder = FolderAtRest
    /\ scan = ScanAtRest

(* --------------------------- specifications ------------------------- *)

\* the shard recovery is at rest while the tree runs
ShardAtRest ==
    [phase |-> "off", file |-> <<>>, next_seqno |-> 0, commits |-> <<>>, cut |-> 0,
     whitelist |-> NoWhitelist, pos |-> 0, hasher |-> 0, is_in_batch |-> FALSE,
     batch_counter |-> 0, batch_seqno |-> 0, last_valid_pos |-> 0, items |-> <<>>,
     memtables |-> [p \in Partitions |-> {}], result |-> "none", found |-> <<>>,
     run |-> 1, first |-> [file |-> <<>>, memtables |-> [p \in Partitions |-> {}]]]

\* Tree::create_new
InitTree ==
    /\ lsn = 0
    /\ active_memtable = {}
    /\ immutable_memtables = <<>>
    /\ segments = <<>>
    /\ journals = << <<>> >>
    /\ approx_active_memtable_size = 0
    /\ shard_lock = "free"
    /\ th = [t \in Threads |-> IdleThread]
    /\ snapshots = <<>>
    /\ open_snapshots = 0
    /\ hist = <<>>

\* the components no call of the tree touches, before they are started
OthersAtRest ==
    /\ disk = DiskAtRest
    /\ mgr = MgrAtRest
    /\ locks = LocksAtRest
    /\ fsync = FsyncAtRest
    /\ range_out = RangeAtRest
    /\ ApiAtRest

Init == InitTree /\ shard = ShardAtRest /\ OthersAtRest

\* the calls that write
Write(t) ==
    \/ \E k \in Keys, v \in Vals : insert(t, k, v)
    \/ \E k \in Keys : remove(t, k)
    \/ \E k \in Keys, e \in OptVals, n \in OptVals : compare_and_swap(t, k, e, n)
    \/ \E items \in Batches : BatchCommit(t, items)

\* the steps of a call that writes
WriteStep(t) ==
    \/ AppendJournal(t)
    \/ AppendMemtable(t)
    \/ AppendFlush(t)
    \/ BatchWrite(t)
    \/ GetActive(t)
    \/ GetImmutable(t)
    \/ GetSegments(t)
    \/ Return(t)

\* the calls built on get and compare_and_swap
Update(t) ==
    \/ \E k \in Keys : get(t, k)
    \/ \E k \in Keys, f \in Fns : fetch_update(t, k, f)
    \/ \E k \in Keys, f \in Fns : update_fetch(t, k, f)
    \/ \E k \in Keys : remove_entry(t, k)
    \/ UpdateLoop(t)

Flushing ==
    \/ force_memtable_flush
    \/ FlushWorker

Background ==
    \/ do_major_compaction
    \/ snapshot
    \/ \E i \in 1..MaxSnapshots : DropSnapshot(i)

\* concurrent writers, memtable sealing and flush workers
Next ==
    \/ \E t \in Threads : Write(t)
    \/ \E t \in Threads : WriteStep(t)
    \/ Flushing

Spec == Init /\ [][Next]_vars

\* one caller thread (no concurrent writers) with every call of the tree, while
\* memtables are sealed and flushed, segments compacted and snapshots opened
NextSeq ==
    \/ Write("t1")
    \/ WriteStep("t1")
    \/ Update("t1")
    \/ Flushing
    \/ Background

SpecSeq == Init /\ [][NextSeq]_vars

\* a journal shard is written by batch commits, cut off by a crash at a marker
\* boundary and recovered
InitRecover ==
    InitTree /\ shard = [ShardAtRest EXCEPT !.phase = "writing"] /\ OthersAtRest

NextRecover ==
    \/ \E items \in JournalBatches : write_batch(items)
    \/ \E n \in 0..(MaxJournalBatches * (MaxBatchItems + 2)) : Crash(n)
    \/ \E w \in Whitelists : recover_and_repair(w)
    \/ RecoverStart
    \/ RecoverItem
    \/ RecoverEnd
    \/ RecoverEof

SpecRecover == InitRecover /\ [][NextRecover]_vars

\* a tree on disk: two writers, the journal is synced, memtables are sealed and
\* flushed step by step, segments compacted, the process dies and the folder is
\* opened again
InitDisk ==
    /\ InitTree
    /\ shard = ShardAtRest
    /\ disk = [DiskAtRest EXCEPT !.phase = "up"]
    /\ mgr = MgrAtRest
    /\ locks = LocksAtRest
    /\ fsync = FsyncAtRest
    /\ range_out = RangeAtRest
    /\ ApiAtRest

DiskWrite(t) ==
    /\ disk.phase = "up"
    /\ disk.crashes = 0
    /\ lsn < MaxDiskWrites
    /\ \E k \in DiskKeys : insert(t, k, "a")

DiskWriteStep(t) ==
    /\ disk.phase = "up"
    /\ \/ AppendJournal(t)
       \/ AppendMemtable(t)
       \/ Return(t)

FlushSteps ==
    \/ WorkerWrite
    \/ WorkerFinish
    \/ WorkerList
    \/ WorkerEvict
    \/ WorkerDelete

CompactSteps ==
    \/ CompactWrite
    \/ CompactCommit
    \/ CompactDelete

OpenSteps ==
    \/ OpenTree
    \/ \E id \in disk.todo : RecoverJournal(id)
    \/ OrphanWrite
    \/ OrphanMetadata
    \/ OrphanList
    \/ OrphanDelete
    \/ RecoverSegmentsBegin
    \/ \E id \in disk.todo : RecoverSegmentDir(id)
    \/ RecoverSegmentsEnd

NextDisk ==
    \/ \E t \in Threads : DiskWrite(t)
    \/ \E t \in Threads : DiskWriteStep(t)
    \/ \E t \in Threads : DiskAppendFlush(t)
    \/ DiskSeal
    \/ TreeFlush
    \/ FlushSteps
    \/ CompactSteps
    \/ CrashTree
    \/ OpenSteps

SpecDisk == InitDisk /\ [][NextDisk]_vars

\* the highest segment id of a folder found at open
MaxSegmentId == 3

\* the manifests found at open: up to MaxSegments ids, none twice
FoundManifests ==
    {m \in SeqsUpTo(1..MaxSegmentId, MaxSegments) :
        \A i, j \in 1..Len(m) : i # j => m[i] # m[j]}

\* the segment folders found at open: for every id none, a half-written one or
\* a complete one
FoundDirs ==
    {{IF f[id] = "complete"
      THEN SegmentDir(id, TRUE, {Value("k1", "a", id, "Value")})
      ELSE SegmentDir(id, FALSE, {}) : id \in {i \in 1..MaxSegmentId : f[i] # "absent"}} :
        f \in [1..MaxSegmentId -> {"absent", "partial", "complete"}]}

\* the journals found at open: none, or the journal 1 with one batch, small
\* enough to stay active (a tombstone) or not (a value), with .flush or without
FoundJournals ==
    {[jids |-> <<>>, journals |-> <<>>, marked |-> {}]}
        \cup {[jids |-> <<1>>,
               journals |-> <<<<[seqno |-> MaxSegmentId + 1,
                                 items |-> <<BatchItem("k1", v, ty)>>]>>>>,
               marked |-> m] :
                 v \in {"a"}, ty \in {"Value", "Tombstone"}, m \in {{}, {1}}}

\* a folder as it is found at open, in any state
InitOpen ==
    /\ lsn = 0
    /\ active_memtable = {}
    /\ immutable_memtables = <<>>
    /\ segments = <<>>
    /\ approx_active_memtable_size = 0
    /\ shard_lock = "free"
    /\ th = [t \in Threads |-> IdleThread]
    /\ snapshots = <<>>
    /\ open_snapshots = 0
    /\ hist = <<>>
    /\ shard = ShardAtRest
    /\ \E m \in FoundManifests, d \in FoundDirs, j \in FoundJournals :
          /\ journals = j.journals
          /\ disk = [DiskAtRest EXCEPT !.phase = "down", !.crashes = 1,
                                       !.next_id = MaxSegmentId + 1, !.jids = j.jids,
                                       !.marked = j.marked, !.manifest = m, !.dirs = d]
    /\ mgr = MgrAtRest
    /\ locks = LocksAtRest
    /\ fsync = FsyncAtRest
    /\ range_out = RangeAtRest
    /\ ApiAtRest

SpecOpen == InitOpen /\ [][OpenSteps]_vars

\* the flush manager: partitions register, flush tasks are enqueued and dequeued,
\* victims are selected
InitLru == Init

NextLru ==
    \/ \E p \in LruPartitions : RegisterPartition(p)
    \/ flush_least_recently_used_partition
    \/ \E p \in LruPartitions : enqueue_task(p)
    \/ \E p \in LruPartitions, cnt \in 0..MaxTasks : dequeue_tasks(p, cnt)

SpecLru == InitLru /\ [][NextLru]_vars

\* two threads call into the tree; only the locks they take are followed
NextLocks ==
    \/ \E t \in Threads, path \in LockPaths : EnterPath(t, path)
    \/ \E t \in Threads : LockStep(t)

SpecLocks == Init /\ [][NextLocks]_vars

\* a tree with an fsync thread: one caller writes until the owner drops the tree
ShutdownWrite(t) ==
    /\ ~fsync.dropped
    /\ \/ \E k \in Keys, v \in Vals : insert(t, k, v)
       \/ \E k \in Keys : remove(t, k)

ShutdownWriteStep(t) ==
    \/ AppendJournal(t)
    \/ AppendMemtable(t)
    \/ AppendFlush(t)
    \/ Return(t)

NextShutdown ==
    \/ ShutdownWrite("t1")
    \/ ShutdownWriteStep("t1")
    \/ start_fsync_thread
    \/ FsyncWake
    \/ FsyncCheck
    \/ FsyncFlush
    \/ DropTree

SpecShutdown == Init /\ [][NextShutdown]_vars

\* one caller whose journal writes, journal syncs and flush starts can fail
Failure(t) ==
    \/ AppendJournalFails(t)
    \/ AppendFlushFails(t)
    \/ BatchWriteFails(t)
    \/ BatchFlushFails(t)

NextErr ==
    \/ Write("t1")
    \/ WriteStep("t1")
    \/ Failure("t1")
    \/ Flushing

SpecErr == Init /\ [][NextErr]_vars

\* the records of a tree in any distribution over the layers: the i-th written
\* record carries seqno i - 1 and lies in the active memtable (layer 1), the
\* sealed memtable (2) or one of two segments (3, 4)
RangeWrites ==
    SeqsUpTo({[key |-> k, value_type |-> ty] : k \in RangeKeySet,
                                                ty \in {"Value", "Tombstone"}},
             MaxRangeRecords) \ {<<>>}

LayerOf(w, f, layer) ==
    {Value(w[i].key, IF w[i].value_type = "Value" THEN "a" ELSE "", i - 1,
           w[i].value_type) : i \in {j \in 1..Len(w) : f[j] = layer}}

InitRange ==
    /\ \E w \in RangeWrites :
          \E f \in [1..Len(w) -> 1..4] :
             /\ lsn = Len(w)
             /\ active_memtable = LayerOf(w, f, 1)
             /\ immutable_memtables = <<LayerOf(w, f, 2)>>
             /\ LET NonEmpty(x) == x # {}
                IN segments = SelectSeq(<<LayerOf(w, f, 3), LayerOf(w, f, 4)>>, NonEmpty)
    /\ journals = << <<>> >>
    /\ approx_active_memtable_size = 0
    /\ shard_lock = "free"
    /\ th = [t \in Threads |-> IdleThread]
    /\ snapshots = <<>>
    /\ open_snapshots = 0
    /\ hist = <<>>
    /\ shard = ShardAtRest
    /\ OthersAtRest

RangeCeilings == {NoSeqno, 1, 2}

NextRange ==
    \/ \E lo \in RangeBoundSet, hi \in RangeBoundSet, seqno \in RangeCeilings :
          create_range(lo, hi, seqno)
    \/ \E prefix \in RangeKeySet \cup {<<>>}, seqno \in RangeCeilings :
          create_prefix(prefix, seqno)

SpecRange == InitRange /\ [][NextRange]_vars

\* the items of the b-th committed batch found in the memtables
InsertedOf(b) ==
    LET c == shard.commits[b]
    IN {i \in 1..Len(c.items) :
           Value(c.items[i].key, c.items[i].value, c.seqno, c.items[i].value_type)
               \in shard.memtables[c.items[i].partition]}

\* the items of the b-th committed batch the whitelist admits
AdmittedOf(b) ==
    LET c == shard.commits[b]
    IN {i \in 1..Len(c.items) : Admits(shard.whitelist, c.items[i].partition)}

\* the number of markers of the first b committed batches
RECURSIVE MarkersUpTo(_)
MarkersUpTo(b) ==
    IF b = 0 THEN 0 ELSE MarkersUpTo(b - 1) + Len(shard.commits[b].items) + 2

\* the crash left the whole b-th batch, its End marker included, on disk
Survived(b) == MarkersUpTo(b) <= shard.cut

(* ------------------------- the history of writes -------------------- *)

\* the value a reader of key k should get from the items of one journal batch:
\* the last item of the key decides; NoneV for a tombstone
Touches(e, k) == \E n \in 1..Len(e.items) : e.items[n].key = k

WrittenValue(e, k) ==
    LET n == Max({m \in 1..Len(e.items) : e.items[m].key = k})
    IN IF e.items[n].value_type = "Tombstone" THEN NoneV ELSE e.items[n].value

\* the calls that carry a seqno but have not reached the journal yet
Stamped(t) == th[t].pc \in {"append", "batch_write"}

(* ------------------------------- claims ----------------------------- *)

\* C1 (as stated): recover_and_repair leaves every batch of a shard, written by
\* batch commits and cut off by a crash at a marker boundary, with all of its n
\* items in the memtables or with none of them.
C1_BatchAllOrNothing ==
    \A b \in 1..Len(shard.commits) :
        InsertedOf(b) \in {{}, 1..Len(shard.commits[b].items)}

\* C1 (amended): at every point of the recovery a batch has none of its items in
\* the memtables or exactly those whose partition the whitelist admits (all n
\* without a whitelist); when recover_and_repair has returned, it returned Ok, the
\* batches whose End marker survived the crash are the applied ones, and the
\* batch that was cut off is not applied.
C1_BatchAllOrNothingAdmitted ==
    \A b \in 1..Len(shard.commits) :
        /\ InsertedOf(b) \in {{}, AdmittedOf(b)}
        /\ shard.phase = "done" =>
               /\ shard.result = "Ok"
               /\ InsertedOf(b) = IF Survived(b) THEN AdmittedOf(b) ELSE {}

\* without a whitelist: the first batch of two items is applied in full, the
\* second lost its End marker (its Start and an Item survived), is not applied
\* and is cut off the shard
C1_Witness ==
    /\ shard.phase = "done" /\ ~shard.whitelist.some
    /\ Len(shard.commits) = 2
    /\ Len(shard.commits[1].items) = 2 /\ InsertedOf(1) = {1, 2}
    /\ shard.cut > MarkersUpTo(1) + 1 /\ ~Survived(2)
    /\ InsertedOf(2) = {}
    /\ Len(shard.file) = MarkersUpTo(1)

\* the markers the first b committed batches put into the shard
RECURSIVE MarkersWritten(_)
MarkersWritten(b) ==
    IF b = 0 THEN <<>>
    ELSE MarkersWritten(b - 1)
             \o BatchMarkers(shard.commits[b].items, shard.commits[b].seqno)

\* the crash cut the shard inside a batch: its End marker is lost
TornTail ==
    \E b \in 1..Len(shard.commits) :
        MarkersUpTo(b - 1) < shard.cut /\ shard.cut < MarkersUpTo(b)

\* the number of markers of the batches that survived the crash in full
ValidLength ==
    MarkersUpTo(Cardinality({b \in 1..Len(shard.commits) : Survived(b)}))

Acknowledged(i) == hist[i].done /\ (disk.crashes = 0 \/ hist[i].seqno \in disk.promised)

\* a journal that still exists holds a record of the key that is as new
InJournal(k, s) ==
    \E j \in 1..Len(journals) : \E r \in Replayed(journals[j]) : r.key = k /\ r.seqno >= s

\* a segment listed in the manifest holds a record of the key that is as new
InListedSegment(k, s) ==
    \E x \in disk.dirs :
        /\ x.id \in ManifestIds(disk) /\ x.complete
        /\ \E r \in x.records : r.key = k /\ r.seqno >= s

\* C11: in a tree opened after a crash every write that had returned when a
\* flush() returned Ok is visible: a lookup of its key finds its record or the
\* record of a later write.
C11_Durability ==
    (disk.phase = "up" /\ disk.crashes > 0) =>
        \A i \in 1..Len(hist) :
            hist[i].seqno \in disk.promised =>
                LET item == get_internal_entry(hist[i].items[1].key, FALSE, NoSeqno)
                IN item # NoItem /\ item.seqno >= hist[i].seqno

\* C13: the manifest lists only segments whose folder is fully written, at every
\* step of a flush, a compaction and an orphaned-journal recovery and after a
\* crash at any of them; when recover_segments has gone through the segments
\* folder, every folder the manifest did not list is deleted and every listed
\* segment is recovered; the levels of a running tree hold every listed segment.
C13_ManifestAtomic ==
    /\ \A id \in ManifestIds(disk) : \E x \in disk.dirs : x.id = id /\ x.complete
    /\ (disk.phase = "segments" /\ disk.todo = {}) =>
           /\ DirIds(disk) = ManifestIds(disk)
           /\ disk.recovered = ManifestIds(disk)
    /\ disk.phase = "up" =>
           /\ Len(segments) = Len(disk.manifest)
           /\ {segments[i] : i \in 1..Len(segments)} =
                  {DirOf(disk, id).records : id \in ManifestIds(disk)}

\* a tree is open again after a crash; the open deleted a folder the manifest
\* did not list and recovered a listed segment
C13_Witness ==
    /\ disk.phase = "up" /\ disk.crashes > 0
    /\ disk.deleted # {} /\ disk.recovered # {}
    /\ DirIds(disk) = disk.recovered

\* C14: an open that finds a listed segment id without a folder does not return
\* a tree; a tree that open returns has every listed segment in its levels.
C14_MissingSegmentRefused ==
    /\ disk.missing => disk.phase # "up"
    /\ disk.phase = "up" =>
           /\ ManifestIds(disk) \subseteq DirIds(disk)
           /\ Len(segments) = Len(disk.manifest)

\* the manifest listed two segments, one had no folder, the other was recovered:
\* the open ended in the panic of recover_segments
C14_Witness ==
    /\ disk.missing /\ disk.phase = "panic"
    /\ disk.todo = {} /\ Cardinality(disk.recovered) = 1
    /\ Len(disk.manifest) = 2

\* C17: every acknowledged write (after a crash: every write a flush() made
\* durable) is in a journal that still exists or in a segment the manifest lists,
\* at every step of seal, segment write, manifest append, eviction and journal
\* deletion.
C17_NoDataLoss ==
    disk.phase \in {"up", "down", "journals", "segments"} =>
        \A i \in 1..Len(hist) :
            Acknowledged(i) =>
                \/ InJournal(hist[i].items[1].key, hist[i].seqno)
                \/ InListedSegment(hist[i].items[1].key, hist[i].seqno)

\* the partitions of an LRU list
ListedIn(items) == {items[i] : i \in 1..Len(items)}

\* C18: the last call of flush_least_recently_used_partition returned None iff
\* the LRU list was empty, and otherwise a partition of the list none of which
\* was flushed, selected or registered longer ago; the calls made since the last
\* dequeue or registration return distinct partitions, as many as the list holds.
C18_LruFair ==
    /\ mgr.last.called =>
           /\ (mgr.last.result = "None") <=> (mgr.last.items = <<>>)
           /\ mgr.last.result # "None" =>
                  /\ mgr.last.result \in ListedIn(mgr.last.items)
                  /\ \A q \in ListedIn(mgr.last.items) :
                         mgr.last.touched[mgr.last.result] <= mgr.last.touched[q]
    /\ \A i, j \in 1..Len(mgr.streak) :
           (i < j /\ j - i < Len(mgr.items)) => mgr.streak[i] # mgr.streak[j]

\* three partitions are registered, the first was flushed since (its tasks were
\* dequeued); three calls in a row returned the three partitions, the flushed
\* one last
C18_Witness ==
    /\ Len(mgr.items) = 3 /\ mgr.streak = <<"p2", "p3", "p1">>
    /\ mgr.next_task = 2 /\ mgr.queues["p1"] = <<>>
    /\ mgr.last.called /\ mgr.last.result = "p1"
    /\ mgr.last.touched["p1"] < mgr.last.touched["p2"]
    /\ mgr.clock = MaxLruCalls

\* C19: the locks a code path holds at the same time were taken in the order
\* shard lock, active memtable lock, immutable memtables lock, levels lock.
C19_LockOrder ==
    \A t \in Threads :
        \A i, j \in 1..Len(locks[t].held) :
            i < j => LockRank(locks[t].held[i].lock) < LockRank(locks[t].held[j].lock)

\* C20: once the tree is dropped the stop signal is up, and the fsync thread
\* flushes the journal at most once more (the flush it had begun before it could
\* see the signal).
C20_Shutdown ==
    fsync.dropped =>
        /\ fsync.stopped
        /\ fsync.late <= 1

\* the keys a call writes
KeysOf(me) ==
    IF me.op = "batch" THEN {me.items[i].key : i \in 1..Len(me.items)} ELSE {me.key}

\* C16: when a write has returned Err, get of each of its keys returns what it
\* returned before the call (the view below the seqno of the call), and no
\* journal holds the write for a recovery to replay.
C16_ErrLeavesState ==
    \A t \in Threads :
        (th[t].pc = "done" /\ th[t].ret.tag = "err") =>
            /\ \A k \in KeysOf(th[t]) :
                   Get(k) = ItemValue(get_internal_entry(k, TRUE, th[t].seqno))
            /\ \A j \in 1..Len(journals) :
                   \A b \in 1..Len(journals[j]) : journals[j][b].seqno # th[t].seqno

\* the key is one the Range or Prefix was asked for
Asked(k) ==
    IF range_out.kind = "prefix" THEN StartsWith(k, range_out.prefix)
    ELSE InBounds(k, range_out.bounds)

\* the newest record of a key under the ceiling of the Range, over all layers
NewestUnder(k) ==
    LET rs == {r \in AllRecords : r.key = k /\ (range_out.seqno = NoSeqno
                                                   \/ r.seqno < range_out.seqno)}
    IN IF rs = {} THEN NoItem ELSE CHOOSE r \in rs : \A o \in rs : o.seqno <= r.seqno

C24_MemtableOrder ==
    \A t \in Threads :
        th[t].pc = "memtable" => \A r \in AllRecords : r.seqno < th[t].seqno

\* C25: every record of the active memtable of a running tree was appended to
\* the active journal, the journal tied to that memtable.
C25_SealAtomic ==
    disk.phase = "up" =>
        active_memtable \subseteq Replayed(journals[Len(journals)])

\* C28: no write returns Ok leaving the approximate size of the active memtable
\* above max_memtable_size.
C28_FlushTrigger ==
    \A t \in Threads :
        (th[t].pc = "done" /\ th[t].op \in {"insert", "remove"} /\ th[t].ret.tag = "ok") =>
            approx_active_memtable_size <= max_memtable_size

\* C2: once Batch::commit has returned Ok, get(k) returns the batch's value for
\* every key the batch inserted and None for every key it removed.
C2_BatchVisibleAfterCommit ==
    \A t \in Threads :
        (th[t].pc = "done" /\ th[t].op = "batch") =>
            \A n \in 1..Len(th[t].items) :
                Get(th[t].items[n].key)
                    = WrittenValue([items |-> th[t].items], th[t].items[n].key)

\* C3: once insert(k, v) or remove(k) has returned, a get(k) returns the value of
\* that write or of a write to k with a higher seqno.
C3_ReadAfterWrite ==
    \A i \in 1..Len(hist) :
        (hist[i].kind = "write" /\ hist[i].done) =>
            LET k == hist[i].items[1].key
            IN \E j \in i..Len(hist) :
                   Touches(hist[j], k) /\ Get(k) = WrittenValue(hist[j], k)

\* C4: no write to the key becomes visible between the read of a successful
\* compare_and_swap and its own write: the value it expected is the value left
\* by the write to the key that precedes it in seqno order (insert, remove or
\* compare_and_swap), so of two compare_and_swap calls that expect the same
\* current value and set different values at most one succeeds.
C4_CasAtomic ==
    \A j \in 1..Len(hist) :
        hist[j].kind = "cas" =>
            LET k == hist[j].items[1].key
                before == {i \in 1..(j - 1) : Touches(hist[i], k)}
            IN (before # {} /\ hist[Max(before)].kind # "batch") =>
                   hist[j].expected = WrittenValue(hist[Max(before)], k)

\* C5: a compare_and_swap that fails returns the value get(k) returns as prev and
\* the proposed value as next.
C5_MismatchReportsCurrent ==
    \A t \in Threads :
        (th[t].pc = "done" /\ th[t].ret.tag = "mismatch") =>
            /\ th[t].ret.prev = Get(th[t].key)
            /\ th[t].ret.next = th[t].next

\* C6: with no concurrent writers fetch_update returns the value the key had
\* before the call, update_fetch returns f of it, and after either call get(k)
\* is f of the previous value (remove_entry is fetch_update with f = None).
C6_UpdateResults ==
    \A t \in Threads :
        (th[t].pc = "done" /\ th[t].op \in {"fetch_update", "update_fetch"}) =>
            /\ th[t].op = "fetch_update" => th[t].ret.value = th[t].pre
            /\ th[t].op = "update_fetch" => th[t].ret.value = ApplyFn(th[t].f, th[t].pre)
            /\ Get(th[t].key) = ApplyFn(th[t].f, th[t].pre)

\* a fetch_update that replaced a present value has returned, after a flush
C6_Witness ==
    \E t \in Threads :
        /\ th[t].pc = "done" /\ th[t].op = "fetch_update"
        /\ th[t].f = "flip" /\ th[t].pre = "a" /\ th[t].ret.value = "a"
        /\ Get(th[t].key) = "b"
        /\ segments # <<>>

\* the last write to k is a remove that has returned, and an insert of k that
\* returned precedes it
RemovedAfterInsert(k) ==
    LET on == {i \in 1..Len(hist) : Touches(hist[i], k)}
    IN /\ on # {}
       /\ hist[Max(on)].kind = "write" /\ hist[Max(on)].done
       /\ hist[Max(on)].items[1].value_type = "Tombstone"
       /\ \E i \in on : /\ hist[i].kind = "write" /\ hist[i].done
                        /\ hist[i].items[1].value_type = "Value"

\* C7: after insert(k, v) followed by remove(k) and no later write to k, get(k)
\* is None and range(..) does not yield k, in every state that flushes and
\* compactions lead to.
C7_TombstoneShadowing ==
    \A k \in Keys :
        RemovedAfterInsert(k) => (Get(k) = NoneV /\ k \notin RangeKeys(NoSeqno))

\* insert and remove have returned and every layer has been flushed and compacted
\* away, the tombstone evicted
C7_Witness ==
    \E k \in Keys : RemovedAfterInsert(k) /\ AllRecords = {} /\ Len(hist) = 2

\* C8: an open snapshot observes exactly the writes (insert, remove,
\* compare_and_swap) whose seqno lies below its ceiling: its get returns the value
\* of the newest of them.
C8_SnapshotExact ==
    \A s \in 1..Len(snapshots) : \A k \in Keys :
        LET seen == {i \in 1..Len(hist) : /\ hist[i].kind # "batch"
                                          /\ Touches(hist[i], k)
                                          /\ hist[i].seqno < snapshots[s]}
        IN SnapshotGet(s, k) = IF seen = {} THEN NoneV
                               ELSE WrittenValue(hist[Max(seen)], k)

\* C9: get(k) serves the record with the highest seqno for k among all layers,
\* and no layer consulted earlier holds an older record of k than a later one.
C9_LayeredLookup ==
    \A k \in Keys :
        LET rs == {r \in AllRecords : r.key = k}
        IN /\ rs # {} => get_internal_entry(k, FALSE, NoSeqno).seqno
                             = Max({r.seqno : r \in rs})
           /\ \A i \in 1..Len(immutable_memtables) :
                  \A r \in active_memtable : \A o \in immutable_memtables[i] :
                      (r.key = k /\ o.key = k) => o.seqno <= r.seqno

\* C10: the writes carry pairwise distinct seqnos, and the batches of the journal
\* (every shard, in the order of the shards) carry strictly ascending seqnos.
C10_SeqnoOrder ==
    /\ \A i, j \in 1..Len(hist) : i < j => hist[i].seqno < hist[j].seqno
    /\ \A a, b \in 1..Len(journals) :
           \A i \in 1..Len(journals[a]) : \A j \in 1..Len(journals[b]) :
               (a < b \/ (a = b /\ i < j)) => journals[a][i].seqno < journals[b][j].seqno
    /\ \A t \in Threads :
           Stamped(t) =>
               /\ \A i \in 1..Len(hist) : hist[i].seqno < th[t].seqno
               /\ \A u \in Threads \ {t} : Stamped(u) => th[u].seqno # th[t].seqno

\* an insert or remove, a compare_and_swap and a batch are in the journal, spread
\* over two shards
C10_Witness ==
    /\ Len(journals) = 2 /\ journals[1] # <<>> /\ journals[2] # <<>>
    /\ \E i, j \in 1..Len(hist) : hist[i].kind = "cas" /\ hist[j].kind = "batch"
    /\ Len(hist) = 3


(* ----------------------- the seqno of a batch ----------------------- *)

\* the records the b-th committed batch puts into the memtable of partition p
RecordsOf(b, p) ==
    LET c == shard.commits[b]
    IN {Value(c.items[i].key, c.items[i].value, c.seqno, c.items[i].value_type) :
           i \in {j \in 1..Len(c.items) : c.items[j].partition = p}}

\* C29: all items of one batch carry the same seqno: a commit takes exactly one
\* value of the seqno counter whatever the number of its items, every Item of the
\* batch is read under the seqno of the Start marker of its batch, and every
\* record the recovery inserts carries the seqno of the batch it came from.
C29_BatchSeqno ==
    /\ shard.next_seqno = Len(shard.commits)
    /\ \A b \in 1..Len(shard.commits) : shard.commits[b].seqno = b - 1
    /\ (shard.phase = "reading" /\ shard.is_in_batch) =>
           \E b \in 1..Len(shard.commits) :
               /\ MarkersUpTo(b - 1) < shard.pos /\ shard.pos <= MarkersUpTo(b)
               /\ shard.batch_seqno = shard.commits[b].seqno
    /\ \A p \in Partitions :
           shard.memtables[p] \subseteq
               UNION {RecordsOf(b, p) : b \in {c \in 1..Len(shard.commits) : Survived(c)}}

\* two batches were recovered without a whitelist; the second, of two items of
\* two partitions, has both items in the memtables under its one seqno, 1
C29_Witness ==
    /\ shard.phase = "done" /\ ~shard.whitelist.some
    /\ Len(shard.commits) = 2 /\ Survived(2)
    /\ Len(shard.commits[2].items) = 2
    /\ shard.commits[2].items[1].partition # shard.commits[2].items[2].partition
    /\ \A p \in Partitions : RecordsOf(2, p) # {} /\ RecordsOf(2, p) \subseteq shard.memtables[p]
    /\ \A p \in Partitions : \A r \in RecordsOf(2, p) : r.seqno = 1


(* ---------------------- recovery of a damaged shard ----------------- *)

\* batches are committed to a shard, one marker of the file is damaged, the shard
\* is recovered
NextCorrupt ==
    \/ \E items \in JournalBatches : write_batch(items)
    \/ \E i \in 1..(MaxJournalBatches * (MaxBatchItems + 2)), kind \in DamageKinds :
          Corrupt(i, kind)
    \/ \E w \in Whitelists : recover_and_repair(w)
    \/ RecoverStart
    \/ RecoverItem
    \/ RecoverEnd
    \/ RecoverEof

SpecCorrupt == InitRecover /\ [][NextCorrupt]_vars

\* the marker at which the loop of recover_and_repair stopped
StoppedAt == shard.found[shard.pos + 1]

\* the loop has stopped at a marker of the file it was given
Stopped == shard.phase = "done" /\ shard.pos < Len(shard.found)

\* the committed batches whose markers the file holds, whole and in place, in
\* front of the marker the loop stopped at
Preceding ==
    {b \in 1..Len(shard.commits) :
        /\ MarkersUpTo(b) <= shard.pos
        /\ SubSeq(shard.found, 1, MarkersUpTo(b)) = MarkersWritten(b)}

\* the memtables hold the admitted items of the batches of B and nothing else
HoldExactly(B) ==
    \A p \in Partitions :
        shard.memtables[p] =
            IF Admits(shard.whitelist, p) THEN UNION {RecordsOf(b, p) : b \in B} ELSE {}

\* the framing of the first n markers of the file: "out" of a batch, "in" a
\* batch, or "bad" once a Start came inside a batch or an Item or End outside
RECURSIVE Framing(_)
Framing(n) ==
    IF n = 0 THEN "out"
    ELSE LET before == Framing(n - 1)
             tag == shard.found[n].tag
         IN CASE before = "bad" -> "bad"
              [] tag = "Start" -> IF before = "in" THEN "bad" ELSE "in"
              [] tag = "Item" -> IF before = "in" THEN "in" ELSE "bad"
              [] OTHER -> IF before = "in" THEN "out" ELSE "bad"

\* Start while in a batch, Item outside a batch, End outside a batch
FramingViolation ==
    \/ StoppedAt.tag = "Start" /\ shard.is_in_batch
    \/ StoppedAt.tag \in {"Item", "End"} /\ ~shard.is_in_batch

PendingChecksum == Checksum(0, shard.items)

\* the error the fatal arms return for the marker the loop stopped at
FatalError ==
    CASE StoppedAt.tag = "Item" /\ shard.is_in_batch /\ shard.batch_counter = 0 ->
             "TooManyItems"
      [] StoppedAt.tag = "End" /\ shard.batch_counter > 0 -> "InsufficientLength"
      [] /\ StoppedAt.tag = "End" /\ shard.is_in_batch /\ shard.batch_counter = 0
         /\ StoppedAt.checksum # PendingChecksum -> "CrcCheck"
      [] OTHER -> "none"

\* C27: an Item in a batch whose remaining count is 0 fails with TooManyItems, an
\* End with a remaining count above 0 with InsufficientLength, an End whose
\* checksum differs from that of the Items of the batch with CrcCheck; the error
\* is returned, the items of the offending batch are in no memtable, the file is
\* not truncated. No other case returns an error.
C27_FatalErrors ==
    /\ (Stopped /\ FatalError # "none") =>
           /\ shard.result = FatalError
           /\ shard.file = shard.found
           /\ HoldExactly(Preceding)
    /\ (shard.phase = "done" /\ shard.result # "Ok") => (Stopped /\ FatalError # "none")

\* the second of two batches has an altered End checksum: CrcCheck is returned
\* with the first batch applied, the two items of the second in no memtable and
\* the file as it was found
C27_Witness ==
    /\ Stopped /\ shard.result = "CrcCheck"
    /\ ~shard.whitelist.some
    /\ Len(shard.commits) = 2 /\ Preceding = {1}
    /\ Len(shard.items) = 2
    /\ shard.file = shard.found /\ Len(shard.file) = MarkersUpTo(2)
    /\ HoldExactly({1})


(* ------------------------- the pool of workers ---------------------- *)

\* memtables are sealed and enqueued while two flush workers collect, flush and
\* dequeue
NextWorkers ==
    \/ \E p \in LruPartitions : enqueue_task(p)
    \/ \E w \in Workers, limit \in Limits, order \in QueueOrders :
          collect_tasks(w, limit, order)
    \/ \E w \in Workers : FlushCollected(w)
    \/ \E w \in Workers : DequeueCollected(w)

SpecWorkers == Init /\ [][NextWorkers]_vars

\* C30: no task is flushed by two workers, no task leaves a queue without having
\* been flushed, and no worker calls dequeue_tasks with a cnt above the length of
\* the queue.
C30_NoLostOrDuplicateTask ==
    /\ \A id \in 1..MaxTasks : Cardinality(mgr.flushed_by[id]) <= 1
    /\ \A id \in mgr.removed : mgr.flushed_by[id] # {}
    /\ \A w \in Workers : mgr.workers[w].pc # "panicked"
    /\ \A w \in Workers :
           mgr.workers[w].pc = "flushed" => ~Panics(mgr.queues, mgr.workers[w].collected)


(* ------------------------------ the Config -------------------------- *)

NextConfig ==
    \/ \E bytes \in ByteCounts : SetMaxJournalingSize(bytes)
    \/ \E bytes \in ByteCounts : SetMaxWriteBufferSize(bytes)
    \/ \E ms \in FsyncArgs : SetFsyncMs(ms)
    \/ ConfigOpen
    \/ ConfigNew

SpecConfig == Init /\ [][NextConfig]_vars

\* C23: the journaling size of a Config is never below 24 MiB: it is 128 MiB by
\* default, the setter refuses every smaller value and leaves the field as it
\* was, so every Config that reaches open has at least 24 MiB.
C23_MinJournalingSize ==
    /\ config.max_journaling_size_in_bytes >= 24 * 1024 * 1024
    /\ ConfigAtRest.max_journaling_size_in_bytes = 128 * 1024 * 1024

\* a Config whose journaling size was set to the least value allowed, 24 MiB,
\* reached open
C23_Witness ==
    /\ config.state = "opened"
    /\ config.max_journaling_size_in_bytes = 24 * 1024 * 1024

(* ------------------------------ the scan ---------------------------- *)

NextLen ==
    \/ CallLen
    \/ \E iter_fails \in BOOLEAN, items \in Scans : NextScan(iter_fails, items)

SpecLen == Init /\ [][NextLen]_vars

\* C22: when a read of the scan fails for an item, len() returns Err; it does
\* not return Ok with a count that leaves the failed items out.
C22_LenSurfacesErrors ==
    (scan.ret # NoResult /\ \E i \in 1..Len(scan.items) : scan.items[i] = "Err") =>
        scan.ret.tag = "Err"

(* ---------------------------- open and crash ------------------------ *)

NextCreate ==
    \/ TreeOpen
    \/ CreateStep
    \/ TreeRecover
    \/ \E lost \in SUBSET Entries : FolderCrash(lost)

SpecCreate == Init /\ [][NextCreate]_vars

\* C21: open recovers exactly when it finds the .lsm marker and creates
\* otherwise; the marker is on disk only with the folders, the levels manifest
\* and a journal; after a crash at any point of create_new the next open
\* succeeds, by creation when the marker is absent, by recovery when it is
\* there. No open fails.
C21_MarkerLast ==
    /\ \A i \in 1..Len(folder.paths) :
           folder.paths[i] = "recover" <=> folder.saw_marker[i]
    /\ Exists(folder.fs, "marker") =>
           \A e \in Entries : Exists(folder.fs, e)
    /\ folder.phase # "failed"
    /\ folder.phase = "open" => folder.result = "Ok"

\* the machine went down in create_new after the journal was made and before
\* the marker: the second open created anew; it went down again with the marker
\* on disk, and the third open recovered
C21_Witness ==
    /\ folder.phase = "open" /\ folder.result = "Ok"
    /\ folder.paths = <<"create", "create", "recover">>
    /\ folder.crashed_at[1] \in 7..9
    /\ Len(folder.crashed_at) = 2


(* ------------------------- the list and the queues ------------------ *)

\* C40: the LRU list holds each partition at most once; a call of
\* get_least_recently_used leaves the set of partitions of the list as it was
\* and puts the partition it returns at the most-recently-used end.
C40_LruListSet ==
    /\ \A i, j \in 1..Len(mgr.items) : mgr.items[i] = mgr.items[j] => i = j
    /\ mgr.streak # <<>> =>
           /\ ListedIn(mgr.items) = ListedIn(mgr.last.items)
           /\ mgr.last.result # "None" =>
                  /\ mgr.items[Len(mgr.items)] = mgr.last.result
                  /\ mgr.last.items[1] = mgr.last.result

\* three partitions are listed, the tasks of one were dequeued (a refresh of a
\* listed partition), and two calls of get_least_recently_used in a row moved
\* two partitions to the end of the list
C40_Witness ==
    /\ Len(mgr.items) = 3 /\ Len(mgr.streak) = 2
    /\ mgr.next_task > 1 /\ \A p \in LruPartitions : mgr.queues[p] = <<>>
    /\ mgr.items[3] = mgr.streak[2] /\ mgr.items[2] = mgr.streak[1]


\* the tasks of a queue
TasksIn(queue) == {queue[i] : i \in 1..Len(queue)}

\* enqueue_task(p) puts one task, in no queue before, behind the tasks of p and
\* leaves the other queues as they are
EnqueueAppends(p) ==
    /\ Len(mgr'.queues[p]) = Len(mgr.queues[p]) + 1
    /\ SubSeq(mgr'.queues[p], 1, Len(mgr.queues[p])) = mgr.queues[p]
    /\ \A q \in LruPartitions : mgr'.queues[p][Len(mgr'.queues[p])] \notin TasksIn(mgr.queues[q])
    /\ \A q \in LruPartitions \ {p} : mgr'.queues[q] = mgr.queues[q]

\* dequeue_tasks(p, cnt) takes the cnt tasks at the head of the queue of p, all
\* sealed before the ones that stay, and leaves the other queues as they are
DequeueTakesOldest(p, cnt) ==
    /\ Len(mgr'.queues[p]) = Len(mgr.queues[p]) - cnt
    /\ mgr'.queues[p] = SubSeq(mgr.queues[p], cnt + 1, Len(mgr.queues[p]))
    /\ \A i \in 1..cnt : \A id \in TasksIn(mgr'.queues[p]) : mgr.queues[p][i] < id
    /\ \A q \in LruPartitions \ {p} : mgr'.queues[q] = mgr.queues[q]

\* p is at the most-recently-used end of the LRU list, the other partitions keep
\* their order
MovedToEnd(p) ==
    LET Other(x) == x # p
    IN /\ mgr'.items # <<>>
       /\ mgr'.items = Append(SelectSeq(mgr.items, Other), p)

\* C39 (as stated): enqueue_task appends to the tail of the queue of its
\* partition; dequeue_tasks(p, cnt) with cnt up to the length of the queue takes
\* the cnt oldest tasks of p, leaves the other queues alone and moves p to the
\* most-recently-used end of the LRU list.
C39_QueueFifo ==
    [][/\ \A p \in LruPartitions : enqueue_task(p) => EnqueueAppends(p)
       /\ \A p \in LruPartitions, cnt \in 0..MaxTasks :
              dequeue_tasks(p, cnt) => (DequeueTakesOldest(p, cnt) /\ MovedToEnd(p))]_vars

\* C39 (amended): as stated when the queue of p holds a task; on an empty queue
\* (cnt is 0 then) dequeue_tasks leaves the queues and the LRU list as they are.
C39_QueueFifoNonEmpty ==
    [][/\ \A p \in LruPartitions : enqueue_task(p) => EnqueueAppends(p)
       /\ \A p \in LruPartitions, cnt \in 0..MaxTasks :
              dequeue_tasks(p, cnt) =>
                  /\ DequeueTakesOldest(p, cnt)
                  /\ IF mgr.queues[p] # <<>> THEN MovedToEnd(p)
                     ELSE mgr'.items = mgr.items]_vars

\* three memtables of p1 were sealed; the two oldest have left the queue, the
\* third is still in it, and p1 is at the end of a list of three partitions
C39_Witness ==
    /\ mgr.next_task = 4 /\ mgr.queues["p1"] = <<3>>
    /\ mgr.queues["p2"] = <<>> /\ mgr.queues["p3"] = <<>>
    /\ Len(mgr.items) = 3 /\ mgr.items[3] = "p1"
    /\ mgr.streak = <<>>


\* the number of tasks a worker holds
RECURSIVE CountOf(_, _)
CountOf(collected, ps) ==
    IF ps = {} THEN 0
    ELSE LET p == CHOOSE q \in ps : TRUE
         IN Len(collected[p]) + CountOf(collected, ps \ {p})

\* C38: collect_tasks(limit) returns at most limit tasks, of each partition the
\* tasks at the head of its queue in queue order, and leaves the queues and the
\* LRU list as they are: the tasks it returned are still at the head of their
\* queues.
C38_CollectFrame ==
    [][\A w \in Workers, limit \in Limits, order \in QueueOrders :
           collect_tasks(w, limit, order) =>
               LET collected == mgr'.workers[w].collected
               IN /\ CountOf(collected, LruPartitions) <= limit
                  /\ \A p \in LruPartitions :
                         /\ Len(collected[p]) <= Len(mgr.queues[p])
                         /\ collected[p] = SubSeq(mgr.queues[p], 1, Len(collected[p]))
                         /\ collected[p] = SubSeq(mgr'.queues[p], 1, Len(collected[p]))
                  /\ mgr'.queues = mgr.queues
                  /\ mgr'.items = mgr.items]_vars

\* p1 holds two sealed memtables; one worker collected the older one with limit
\* 1 and has not dequeued it, the other collected both with limit 2: the first
\* task was handed out again
C38_Witness ==
    /\ mgr.queues["p1"] = <<1, 2>>
    /\ mgr.workers["w1"].pc = "flushing" /\ mgr.workers["w1"].collected["p1"] = <<1>>
    /\ mgr.workers["w2"].pc = "flushing" /\ mgr.workers["w2"].collected["p1"] = <<1, 2>>


(* ------------------------ updates under a writer -------------------- *)

\* one caller updates a key with fetch_update or update_fetch while another
\* makes one write and returns
NextUpdate ==
    \/ \E k \in Keys, f \in Fns : fetch_update("t1", k, f)
    \/ \E k \in Keys, f \in Fns : update_fetch("t1", k, f)
    \/ UpdateLoop("t1")
    \/ \E k \in Keys, v \in Vals : insert("t2", k, v)
    \/ \E k \in Keys : remove("t2", k)
    \/ \E t \in Threads : AppendJournal(t)
    \/ \E t \in Threads : AppendMemtable(t)
    \/ \E t \in Threads : AppendFlush(t)
    \/ \E t \in Threads : GetActive(t)
    \/ \E t \in Threads : GetImmutable(t)
    \/ \E t \in Threads : GetSegments(t)

SpecUpdate == Init /\ [][NextUpdate]_vars

\* C31: once the other writer has returned, a compare_and_swap of the retry loop
\* that fails leaves the loop with the current value of the key, so that the
\* next compare_and_swap succeeds and the update returns.
C31_UpdateTerminates ==
    \A t \in Threads :
        (/\ th[t].pc = "cas_lock" /\ th[t].quiet
         /\ \A u \in Threads \ {t} : th[u].pc = "done") =>
            th[t].fetched = Get(th[t].key)


(* --------------------------- recovery, twice ------------------------ *)

\* a shard is written, cut off by a crash or damaged, recovered, and recovered
\* again
NextRepeat ==
    \/ \E items \in JournalBatches : write_batch(items)
    \/ \E n \in 0..(MaxJournalBatches * (MaxBatchItems + 2)) : Crash(n)
    \/ \E i \in 1..(MaxJournalBatches * (MaxBatchItems + 2)), kind \in DamageKinds :
          Corrupt(i, kind)
    \/ \E w \in Whitelists : recover_and_repair(w)
    \/ RecoverStart
    \/ RecoverItem
    \/ RecoverEnd
    \/ RecoverEof
    \/ recover_again

SpecRepeat == InitRecover /\ [][NextRepeat]_vars

\* the items of the markers file[from .. to]
ItemsOf(file, from, to) == [i \in 1..(to - from + 1) |-> file[from + i - 1].item]

\* the file is a sequence of batches, each a Start marker, as many Item markers
\* as the Start announces and an End marker with the checksum of the items
RECURSIVE CompleteBatches(_)
CompleteBatches(file) ==
    \/ file = <<>>
    \/ /\ file[1].tag = "Start"
       /\ LET n == file[1].item_count
          IN /\ Len(file) >= n + 2
             /\ \A i \in 2..(n + 1) : file[i].tag = "Item"
             /\ file[n + 2].tag = "End"
             /\ file[n + 2].checksum = Checksum(0, ItemsOf(file, 2, n + 1))
             /\ CompleteBatches(SubSeq(file, n + 3, Len(file)))

\* C37: when recover_and_repair has returned Ok the file holds complete,
\* validated batches only; recover_and_repair on that file returns Ok again,
\* leaves the file as it is and fills the memtables with the same records.
C37_RecoveryIdempotent ==
    /\ (shard.phase = "done" /\ shard.result = "Ok") => CompleteBatches(shard.file)
    /\ (shard.phase = "done" /\ shard.run = 2) =>
           /\ shard.result = "Ok"
           /\ shard.file = shard.first.file
           /\ shard.memtables = shard.first.memtables

\* the second of two batches lost its End marker in the crash; the first
\* recovery cut it off, the second one found the first batch alone, left the
\* file as it was and applied the same records
C37_Witness ==
    /\ shard.phase = "done" /\ shard.run = 2 /\ ~shard.whitelist.some
    /\ Len(shard.commits) = 2 /\ shard.cut = MarkersUpTo(2) - 1
    /\ Len(shard.file) = MarkersUpTo(1)
    /\ \E p \in Partitions : shard.memtables[p] # {}
    /\ shard.memtables = shard.first.memtables

(* --------------------- the seqno counter after recovery ------------- *)

\* the records of the tree that Tree::recover returned
RecoveredRecords ==
    active_memtable \cup UNION {segments[i] : i \in 1..Len(segments)}

\* C35: when Tree::recover returns the tree, the seqno counter is greater than
\* the seqno of every record of the recovered active memtable and of every
\* recovered segment, and it is 0 when the tree holds no record.
C35_SeqnoAfterRecovery ==
    [][(disk.phase = "segments" /\ disk'.phase = "up") =>
           /\ \A r \in RecoveredRecords' : r.seqno < lsn'
           /\ RecoveredRecords' = {} => lsn' = 0]_vars

\* a tree was recovered with an active memtable and two segments; the counter is
\* one above the seqno of the journal's record, the highest of the folder
C35_Witness ==
    /\ disk.phase = "up" /\ disk.crashes > 0
    /\ active_memtable # {} /\ Len(segments) = 2
    /\ lsn = MaxSegmentId + 2
    /\ \A r \in RecoveredRecords : r.seqno < lsn

(* ------------------ the journal rotation, step by step -------------- *)

\* the rotation of the journal at the seal, before the old journal is marked: a
\* new journal folder is active, the old one has no .flush yet
RotatedUnmarked(d) ==
    [d EXCEPT !.jids = Append(@, d.next_id),
              !.next_id = @ + 1,
              !.synced = 0]

\* Tree::insert and Tree::remove on the running tree
RotateWrite(t) ==
    /\ disk.phase = "up"
    /\ disk.crashes = 0
    /\ lsn < MaxDiskWrites
    /\ \E k \in DiskKeys : insert(t, k, "a") \/ remove(t, k)

\* Tree::force_memtable_flush: crate::flush::start seals the memtable and
\* rotates the journal
RotateSeal ==
    /\ disk.phase = "up"
    /\ active_memtable # {}
    /\ flush_start
    /\ disk' = RotatedUnmarked(disk)
    /\ UNCHANGED <<lsn, segments, shard_lock, th, snapshots, open_snapshots, hist, shard,
                   mgr, locks, fsync, range_out, apiVars>>

\* append_entry, the end: crate::flush::start seals the memtable and rotates the
\* journal
RotateAppendFlush(t) ==
    /\ disk.phase = "up"
    /\ th[t].pc = "flush"
    /\ flush_start
    /\ disk' = IF active_memtable # {} THEN RotatedUnmarked(disk) ELSE disk
    /\ th' = [th EXCEPT ![t] = Finished(th[t])]
    /\ hist' = MarkDone(th[t].seqno)
    /\ UNCHANGED <<lsn, segments, shard_lock, snapshots, open_snapshots, shard,
                   mgr, locks, fsync, range_out, apiVars>>

\* the journal of a sealed memtable is marked with .flush
MarkFlushed ==
    /\ disk.phase = "up"
    /\ \E i \in 1..(Len(disk.jids) - 1) :
          /\ disk.jids[i] \notin disk.marked
          /\ disk' = [disk EXCEPT !.marked = @ \cup {disk.jids[i]}]
    /\ UNCHANGED <<treeVars, shard, mgr, locks, fsync, range_out, apiVars>>

NextRotate ==
    \/ \E t \in Threads : RotateWrite(t)
    \/ \E t \in Threads : DiskWriteStep(t)
    \/ \E t \in Threads : RotateAppendFlush(t)
    \/ RotateSeal
    \/ MarkFlushed
    \/ FlushSteps
    \/ CrashTree
    \/ OpenSteps

\* a tree on disk whose journal is rotated and marked in two steps
SpecRotate == InitDisk /\ [][NextRotate]_vars

\* the journal folders that are not empty and hold no .flush
ActiveJournals(d) ==
    {d.jids[i] : i \in {j \in 1..Len(d.jids) :
                            JournalSize(journals[j]) # 0 /\ d.jids[j] \notin d.marked}}

\* C34: the folder a crash leaves holds at most one journal folder that is not
\* empty and has no .flush, and recover_active_journal never trips its assertion
\* of a second active journal.
C34_OneActiveJournal ==
    /\ disk.phase = "down" => Cardinality(ActiveJournals(disk)) <= 1
    /\ ~(disk.phase = "panic" /\ disk.todo # {})

(* ------------------- compaction under open snapshots ---------------- *)

\* the records a step took out of the segments
DroppedRecords ==
    UNION {segments[i] : i \in 1..Len(segments)}
        \ UNION {segments'[i] : i \in 1..Len(segments')}

\* C36: a compaction drops a tombstone only if its seqno is at most the ceiling
\* of every open snapshot; get(k) on the tree and on every open snapshot returns
\* after the compaction what it returned before; the open-snapshot counter is the
\* number of open snapshots.
C36_CompactionKeepsReads ==
    [][(segments' # segments /\ immutable_memtables' = immutable_memtables) =>
           /\ \A r \in DroppedRecords :
                  r.value_type = "Tombstone" =>
                      \/ \A i \in 1..Len(snapshots) : r.seqno <= snapshots[i]
                      \/ \E o \in UNION {segments'[i] : i \in 1..Len(segments')} :
                             o.key = r.key /\ o.seqno > r.seqno
           /\ \A k \in Keys : Get(k)' = Get(k)
           /\ \A s \in 1..Len(snapshots) : \A k \in Keys :
                  SnapshotGet(s, k)' = SnapshotGet(s, k)
           /\ open_snapshots' = Len(snapshots')]_vars

(* ------------------ a crash while a journal is recovered ------------ *)

\* the records the folder holds: those of the journals and of the segments the
\* manifest lists
DurableRecords ==
    UNION {Replayed(journals[j]) : j \in 1..Len(journals)}
        \cup UNION {x.records : x \in {y \in disk.dirs : y.id \in ManifestIds(disk)}}

\* the value of a key in the folder: that of its record with the highest seqno
VisibleOnDisk(k) ==
    LET rs == {r \in DurableRecords : r.key = k}
    IN IF rs = {} THEN NoneV
       ELSE ItemValue(ignore_tombstone_value(
                CHOOSE r \in rs : \A o \in rs : o.seqno <= r.seqno))

\* how often the manifest lists a segment id
TimesListed(d, id) == Cardinality({i \in 1..Len(d.manifest) : d.manifest[i] = id})

\* C33: once an open was cut short by a crash at a step of an orphaned journal's
\* recovery, no step of the next open changes the value of a key in the folder;
\* when recover_active_journal removes the folder of an orphaned journal, the
\* journal's records are those of the segment of its id, which the manifest
\* lists once; the tree that open returns has one journal left, the active one,
\* and reads the values of the folder.
C33_OrphanRecoveryIdempotent ==
    [][disk'.interrupted # {} =>
           /\ (/\ disk.phase \in {"down", "journals", "segments"}
               /\ disk'.phase \in {"down", "journals", "segments", "up"}) =>
                  \A k \in DiskKeys : VisibleOnDisk(k)' = VisibleOnDisk(k)
           /\ (disk.orphan_pc = "delete" /\ disk'.orphan_pc = "idle"
                  /\ disk'.phase = "journals") =>
                  /\ TimesListed(disk, disk.orphan) = 1
                  /\ DirOf(disk, disk.orphan).complete
                  /\ DirOf(disk, disk.orphan).records =
                         Replayed(journals[JournalIndex(disk, disk.orphan)])
                  /\ disk.orphan \notin JournalIds(disk')
           /\ (disk.phase = "segments" /\ disk'.phase = "up") =>
                  /\ disk'.jids = <<disk'.active>>
                  /\ \A id \in ManifestIds(disk') : TimesListed(disk', id) = 1
                  /\ \A k \in DiskKeys : Get(k)' = VisibleOnDisk(k)']_vars

(* ------------------ a write under a live iterator ------------------- *)

\* crate::flush::start: the write lock of the active memtable, under it the
\* write lock of the immutable memtables for the sealed memtable
FlushStartLocks ==
    <<Acquire("active_memtable", "write"), Acquire("immutable_memtables", "write"),
      Release("immutable_memtables"), Release("active_memtable")>>

\* the flush worker: the segment is appended to the levels, the sealed memtable
\* removed from the map
FlushWorkerLocks ==
    <<Acquire("levels", "write"), Release("levels"),
      Acquire("immutable_memtables", "write"), Release("immutable_memtables")>>

\* create_range and create_prefix up to their return: the MemTableGuard of the
\* Range holds the read locks of the active and the immutable memtables
GuardLocks ==
    <<Acquire("levels", "read"), Acquire("active_memtable", "read"),
      Acquire("immutable_memtables", "read"), Release("levels")>>

\* the Range is dropped, and with it the MemTableGuard
GuardDrop == <<Release("immutable_memtables"), Release("active_memtable")>>

\* Tree::insert whose append_entry finds the memtable above max_memtable_size
SealingInsertLocks == <<Acquire("shard", "write")>> \o AppendLocks \o FlushStartLocks

\* the calls of a thread that can hold an iterator while it calls the tree
GuardPath(path) ==
    CASE path = "get" -> GetLocks
      [] path = "insert" -> <<Acquire("shard", "write")>> \o AppendLocks
      [] path = "insert_sealing" -> SealingInsertLocks
      [] path = "compare_and_swap" -> <<Acquire("shard", "write")>> \o GetLocks \o AppendLocks
      [] path = "range" -> GuardLocks \o GuardDrop
      [] path = "range_get" -> GuardLocks \o GetLocks \o GuardDrop
      [] path = "range_insert_sealing" -> GuardLocks \o SealingInsertLocks \o GuardDrop
      [] path = "flush_worker" -> FlushWorkerLocks
      [] path = "do_major_compaction" -> <<Acquire("levels", "write"), Release("levels")>>

GuardPaths ==
    {"get", "insert", "insert_sealing", "compare_and_swap", "range", "range_get",
     "range_insert_sealing", "flush_worker", "do_major_compaction"}

\* the guards on a lock among the guards a thread holds
GuardsOn(held, lock) == {i \in 1..Len(held) : held[i].lock = lock}

\* std::sync::RwLock: read() waits while a writer holds the lock, write() waits
\* while any guard on the lock is alive, whichever thread holds it
Grantable(t, lock, mode) ==
    IF mode = "read"
    THEN \A o \in Threads :
             \A i \in GuardsOn(locks[o].held, lock) : locks[o].held[i].mode = "read"
    ELSE \A o \in Threads : GuardsOn(locks[o].held, lock) = {}

\* a thread calls into the tree
EnterGuardPath(t, path) ==
    /\ path \in GuardPaths
    /\ EnterPath(t, path)

\* the next lock operation of the call: an acquisition adds a guard, a drop
\* removes the guard taken last on the lock
GuardStep(t) ==
    /\ locks[t].path # "none"
    /\ LET me == locks[t]
           ops == GuardPath(me.path)
           o == ops[me.pc]
           held == IF o.op = "acquire"
                   THEN Append(me.held, [lock |-> o.lock, mode |-> o.mode])
                   ELSE RemoveAt(me.held, Max(GuardsOn(me.held, o.lock)))
       IN /\ o.op = "acquire" => Grantable(t, o.lock, o.mode)
          /\ locks' = [locks EXCEPT ![t] = IF me.pc = Len(ops)
                                           THEN [path |-> "none", pc |-> 0, held |-> <<>>]
                                           ELSE [me EXCEPT !.pc = @ + 1, !.held = held]]
    /\ UNCHANGED <<treeVars, shard, disk, mgr, fsync, range_out, apiVars>>

NextGuards ==
    \/ \E t \in Threads, path \in GuardPaths : EnterGuardPath(t, path)
    \/ \E t \in Threads : GuardStep(t)

\* two threads call into the tree, with iterators that live across calls
SpecGuards == Init /\ [][NextGuards]_vars

\* the thread waits for a lock
Waiting(t) ==
    /\ locks[t].path # "none"
    /\ LET o == GuardPath(locks[t].path)[locks[t].pc]
       IN o.op = "acquire" /\ ~Grantable(t, o.lock, o.mode)

\* C32: there is no state in which a thread waits for a lock while every thread
\* inside a call of the tree waits: a write that seals the memtable gets the
\* write lock of the active memtable, also under a live Range of its own thread.
C32_NoDeadlock ==
    ~\E t \in Threads :
        /\ Waiting(t)
        /\ \A u \in Threads : locks[u].path # "none" => Waiting(u)

====
